---- MODULE Spec2Model ----
(***************************************************************************)
(* Datalake blob engine (workers/datalake/src/blob.ts): the data table     *)
(* (content addressed), the blob table (name addressed), the bucket of a   *)
(* location, the edge cache, and the request handlers saveBlob,            *)
(* handleBlobUploaded, handleBlobDelete, handleBlobGet and handleBlobHead, *)
(* one step per awaited I/O operation, interleaved between requests; the   *)
(* per-file results of handleUploadFormData; the status and headers of a   *)
(* GET with a Range header.                                                *)
(***************************************************************************)
EXTENDS Integers, Sequences, FiniteSets, TLC

VARIABLES data, blob, bucket, cache, proc, faulted, ingests, served, collab, imp

\* the datalake worker: tables, buckets, edge cache and requests
datalake == <<data, blob, bucket, cache, proc, faulted, ingests, served>>

vars == <<data, blob, bucket, cache, proc, faulted, ingests, served, collab, imp>>

(* ------------------------------ bounds -------------------------------- *)

\* request slots: the requests in flight at the same time
NProcs == 2
\* saveBlob and handleBlobUploaded calls in one behaviour
MaxIngest == 2
\* the largest object size, range offset, range length and suffix of a range request
MaxSize == 4
\* the largest retries argument of a withRetry call
MaxRetries == 5
\* loadDocument and saveDocument calls in one behaviour
MaxCalls == 2
\* task rows in the ClickUp CSV
MaxRows == 2
\* issues in the workspace data of an import
MaxIssues == 3

\* the retries PlatformStorageAdapter passes to withRetry
LoadRetries == 5
SaveRetries == 5

Procs == 1..NProcs
\* the tenants of the deployment, and those the requests of most specifications are for
Tenants == {"w1", "w2"}
Workspaces == {"w1"}
Names == {"a", "b"}
Types == {"text/plain"}
\* the types of the files of a form upload
VideoTypes == {"video/mp4"}
FormTypes == Types \cup VideoTypes
\* physical keys reserved for writes that bypass saveBlob (signed url, multipart)
OobKeys == {"k1"}

(* --------------------------- pure helpers ----------------------------- *)

\* size threshold between the small and the large path of saveBlob
hashLimit == 1

\* contents are named by their byte size: up to one byte over the threshold
Contents == 1..(hashLimit + 1)

Size(c) == c

\* what clients write out of band is over the threshold
OobContents == {c \in Contents : Size(c) > hashLimit}

NoHash == <<"none", "none", 0>>

\* a digest of the bytes c under algorithm alg (collision free)
Digest(alg, c) == [alg |-> alg, of |-> c]

\* the UUID-shaped identifier made of a digest's bytes
toUUID(d) == <<"uuid", d.alg, d.of>>

digestToUUID(d) == toUUID(d)

getSha256(c) == digestToUUID(Digest("sha256", c))

\* crypto.randomUUID() of the n-th call: never equal to another identifier
randomUUID(n) == <<"uuid", "random", n>>

\* getUniqueFilename() of the n-th call
getUniqueFilename(n) == "f" \o ToString(n)

selectStorage(workspace) ==
  IF workspace = "w2" THEN [location |-> "eeur", bucket |-> "eeur"]
                     ELSE [location |-> "weur", bucket |-> "weur"]

Locations == {selectStorage(w).location : w \in Tenants}

(* ------------------------- metadata store (db) ------------------------ *)

DataKey(r) == <<r.hash, r.location>>
BlobKey(r) == <<r.workspace, r.name>>

\* db.getData: the rows with that key (none: null)
getData(dt, hash, location) == {r \in dt : r.hash = hash /\ r.location = location}

\* an upsert in place of the conditional insert
createDataUpsert(dt, row) ==
  {r \in dt : DataKey(r) # <<row.hash, row.location>>} \cup {row}

\* db.createData: insert if absent
createData(dt, row) ==
  IF getData(dt, row.hash, row.location) # {} THEN dt ELSE dt \cup {row}

\* db.createBlob: upsert of the pointer, deleted = false
createBlob(bl, workspace, name, hash, location) ==
  {r \in bl : BlobKey(r) # <<workspace, name>>}
    \cup {[workspace |-> workspace, name |-> name, hash |-> hash,
           location |-> location, deleted |-> FALSE]}

\* db.deleteBlob: soft delete
deleteBlob(bl, workspace, name) ==
  {IF BlobKey(r) = <<workspace, name>> THEN [r EXCEPT !.deleted = TRUE] ELSE r : r \in bl}

\* db.getBlob: the blob row joined with the filename of its data row
getBlob(bl, dt, workspace, name) ==
  {[deleted |-> b.deleted, filename |-> d.filename] :
     <<b, d>> \in {x \in bl \X dt :
                     /\ BlobKey(x[1]) = <<workspace, name>>
                     /\ DataKey(x[2]) = <<x[1].hash, x[1].location>>}}

\* the createData left out of the transaction
SqlBeginBlobOnly(dt, bl, row, workspace, name, ok) ==
  IF ok
    THEN [data |-> dt, blob |-> createBlob(bl, workspace, name, row.hash, row.location)]
    ELSE [data |-> dt, blob |-> bl]

\* two statements outside a transaction: a failure after the first keeps it
SqlBeginPartial(dt, bl, row, workspace, name, ok) ==
  IF ok
    THEN [data |-> createData(dt, row),
          blob |-> createBlob(bl, workspace, name, row.hash, row.location)]
    ELSE [data |-> createData(dt, row), blob |-> bl]

\* sql.begin(sql => [createData, createBlob]): both or, when it fails, neither
SqlBegin(dt, bl, row, workspace, name, ok) ==
  IF ok
    THEN [data |-> createData(dt, row),
          blob |-> createBlob(bl, workspace, name, row.hash, row.location)]
    ELSE [data |-> dt, blob |-> bl]

(* ------------------------------ bucket -------------------------------- *)

\* bucket.head / bucket.get: the objects under that key (none: null)
BucketHead(bk, b, key) == {o \in bk[b] : o.key = key}

BucketPut(bk, b, key, c, type) ==
  [bk EXCEPT ![b] = {o \in @ : o.key # key}
                      \cup {[key |-> key, content |-> c, type |-> type, md5 |-> TRUE]}]

BucketDelete(bk, b, key) == [bk EXCEPT ![b] = {o \in @ : o.key # key}]

(* ------------------------- range requests (GET) ----------------------- *)

\* a field of an R2Range that is not there, the Range header that is not sent
Absent == -1
Min(a, b) == IF a < b THEN a ELSE b

NoRange == [offset |-> Absent, length |-> Absent, suffix |-> Absent]

\* the Range header of a GET: none, bytes=a-b (b = a + len - 1), bytes=a-, bytes=-s
RangeRequests(size) ==
  {[kind |-> "none", a |-> 0, n |-> 0]}
    \cup {[kind |-> "range", a |-> a, n |-> n] : a \in 0..(size - 1), n \in 1..MaxSize}
    \cup {[kind |-> "from", a |-> a, n |-> 0] : a \in 0..(size - 1)}
    \cup {[kind |-> "suffix", a |-> 0, n |-> n] : n \in 1..MaxSize}

\* the number of bytes bucket.get serves of an object of that size
ServedBytes(req, size) ==
  CASE req.kind = "none" -> size
    [] req.kind = "range" -> Min(req.n, size - req.a)
    [] req.kind = "from" -> size - req.a
    [] req.kind = "suffix" -> Min(req.n, size)

\* object.range as bucket.get may report it: the range resolved against the
\* object, or the range as it was asked (R2Range leaves length and offset optional)
ObjectRanges(req, size) ==
  CASE req.kind = "none" -> {NoRange}
    [] req.kind = "range" ->
         {[NoRange EXCEPT !.offset = req.a, !.length = Min(req.n, size - req.a)],
          [NoRange EXCEPT !.offset = req.a, !.length = req.n]}
    [] req.kind = "from" ->
         {[NoRange EXCEPT !.offset = req.a, !.length = size - req.a],
          [NoRange EXCEPT !.offset = req.a]}
    [] req.kind = "suffix" ->
         {[NoRange EXCEPT !.offset = size - Min(req.n, size), !.length = Min(req.n, size)],
          [NoRange EXCEPT !.suffix = req.n]}

\* the header naming the first byte after the range as its last
rangeHeaderPastEnd(range, size) ==
  LET start == IF range.suffix # Absent THEN size - range.suffix
               ELSE IF range.offset # Absent THEN range.offset ELSE 0
      end == IF range.suffix # Absent THEN size
             ELSE IF range.length # Absent THEN start + range.length ELSE size
  IN <<start, end, size>>

\* "bytes start-(end-1)/size" as <<start, end - 1, size>>
rangeHeader(range, size) ==
  LET start == IF range.suffix # Absent THEN size - range.suffix
               ELSE IF range.offset # Absent THEN range.offset ELSE 0
      end == IF range.suffix # Absent THEN size
             ELSE IF range.length # Absent THEN start + range.length ELSE size
  IN <<start, end - 1, size>>

\* the Content-Length of r2MetadataHeaders: head.size
r2MetadataHeaders(size) == [contentLength |-> size]

NoContentRange == <<Absent, Absent, Absent>>

NoRequest == [pc |-> "none", size |-> 0, req |-> [kind |-> "none", a |-> 0, n |-> 0],
              range |-> NoRange, bytes |-> 0, status |-> "none", contentLength |-> 0,
              contentRange |-> NoContentRange]

\* the response handleBlobGet builds from the object bucket.get returned
RangeResponse(rq, range) ==
  LET headers == r2MetadataHeaders(rq.size)
      length == IF range # NoRange /\ range.length # Absent THEN range.length ELSE Absent
  IN [rq EXCEPT !.pc = "answered",
                !.range = range,
                !.bytes = ServedBytes(rq.req, rq.size),
                !.status = IF length # Absent /\ length < rq.size THEN "206" ELSE "200",
                !.contentLength = headers.contentLength,
                !.contentRange = IF rq.req.kind # "none" /\ range # NoRange
                                   THEN rangeHeader(range, rq.size) ELSE NoContentRange]

(* ------------------------------ requests ------------------------------ *)

\* no collaborator document and no import at work
NoCollab == [pc |-> "none"]
NoImport == [pc |-> "none"]

Idle == [op |-> "idle", pc |-> "idle", workspace |-> "none", name |-> "none",
         content |-> 0, type |-> "none", filename |-> "none", hash |-> NoHash,
         pend |-> {}, won |-> {}, status |-> "none", body |-> 0,
         result |-> "none", method |-> "none", path |-> "none", form |-> "none"]

InFlight(p) == proc[p].pc \notin {"idle", "done"}

\* a finished request stays on record for one step, in which nothing else happens
NoneDone == \A q \in Procs : proc[q].pc # "done"

Init ==
  /\ data = {}
  /\ blob = {}
  /\ bucket = [b \in Locations |-> {}]
  /\ cache = {}
  /\ proc = [p \in Procs |-> Idle]
  /\ faulted = FALSE
  /\ ingests = 0
  /\ served = NoRequest
  /\ collab = NoCollab
  /\ imp = NoImport

\* a request arrives in the first free slot
Begin(p, rec) ==
  /\ NoneDone
  /\ proc[p].pc = "idle"
  /\ \A q \in Procs : q < p => proc[q].pc # "idle"
  /\ proc' = [proc EXCEPT ![p] = rec]
  /\ UNCHANGED <<served, collab, imp>>

\* a saveBlob or handleBlobUploaded call arrives
BeginIngest(p, rec) ==
  /\ ingests < MaxIngest
  /\ ingests' = ingests + 1
  /\ Begin(p, rec)

Step(p, rec) == NoneDone /\ proc' = [proc EXCEPT ![p] = rec] /\ UNCHANGED <<served, collab, imp>>

Finish(p, status) == Step(p, [proc[p] EXCEPT !.pc = "done", !.status = status])

\* an I/O operation of request p fails and the handler throws
Throw(p) ==
  /\ faulted' = TRUE
  /\ Finish(p, "error")

Loc(p) == selectStorage(proc[p].workspace).location
\* every request reading and writing the bucket of one fixed shard
BktShared(p) == "weur"
Bkt(p) == selectStorage(proc[p].workspace).bucket

\* the data row a request passes to createData
NewRow(p) == [hash |-> proc[p].hash, location |-> Loc(p), filename |-> proc[p].filename,
              type |-> proc[p].type, size |-> Size(proc[p].content)]

(* ------------------------------ saveBlob ------------------------------ *)

\* the threshold compared strictly: a file of exactly hashLimit bytes goes the large way
SavePathStrict(size) == IF size < hashLimit THEN "small" ELSE "large"

SavePath(size) == IF size <= hashLimit THEN "small" ELSE "large"

\* the record of a saveBlob call that arrives as the n-th saveBlob or handleBlobUploaded
SaveCall(w, n, c, t) ==
  [Idle EXCEPT !.op = "save", !.workspace = w, !.name = n, !.content = c, !.type = t,
               !.filename = getUniqueFilename(ingests + 1)]

\* the small path putting the object before the lookup, as the large path does
SmallGetDataPutFirst(p) ==
  \E w \in Workspaces, n \in Names, c \in Contents, t \in Types :
    /\ SavePath(Size(c)) = "small"
    /\ bucket' = BucketPut(bucket, selectStorage(w).bucket, getUniqueFilename(ingests + 1), c, t)
    /\ LET hash == getSha256(c)
       IN BeginIngest(p, [SaveCall(w, n, c, t) EXCEPT !.hash = hash,
            !.pc = IF getData(data, hash, selectStorage(w).location) # {}
                     THEN "s_blob" ELSE "s_tx"])
    /\ UNCHANGED <<data, blob, cache, faulted>>

\* a small saveBlob arrives with a file of one of the types: getSha256, then db.getData
SmallGetDataOf(p, ws, types) ==
  \E w \in ws, n \in Names, c \in Contents, t \in types :
    /\ SavePath(Size(c)) = "small"
    /\ LET hash == getSha256(c)
       IN BeginIngest(p, [SaveCall(w, n, c, t) EXCEPT !.hash = hash,
            !.pc = IF getData(data, hash, selectStorage(w).location) # {}
                     THEN "s_blob" ELSE "s_put"])
    /\ UNCHANGED <<data, blob, bucket, cache, faulted>>

SmallGetData(p) == SmallGetDataOf(p, Workspaces, Types)

\* the small path returning without the upsert when the data is found
SmallCreateBlobSkips(p) ==
  /\ proc[p].pc = "s_blob"
  /\ Finish(p, "ok")
  /\ UNCHANGED <<data, blob, bucket, cache, faulted, ingests>>

\* small path, data found: only db.createBlob
SmallCreateBlob(p) ==
  /\ proc[p].pc = "s_blob"
  /\ UNCHANGED <<data, bucket, cache, ingests>>
  /\ \/ /\ blob' = createBlob(blob, proc[p].workspace, proc[p].name, proc[p].hash, Loc(p))
        /\ Finish(p, "ok")
        /\ UNCHANGED faulted
     \/ Throw(p) /\ UNCHANGED blob

\* small path, no data: bucket.put
SmallPut(p) ==
  /\ proc[p].pc = "s_put"
  /\ UNCHANGED <<data, blob, cache, ingests>>
  /\ \/ /\ bucket' = BucketPut(bucket, Bkt(p), proc[p].filename, proc[p].content, proc[p].type)
        /\ Step(p, [proc[p] EXCEPT !.pc = "s_tx"])
        /\ UNCHANGED faulted
     \/ Throw(p) /\ UNCHANGED bucket

\* sql.begin of createData and createBlob, of either path and of handleBlobUploaded
Transaction(p, at) ==
  /\ proc[p].pc = at
  /\ UNCHANGED <<bucket, cache, ingests>>
  /\ \E ok \in BOOLEAN :
       LET r == SqlBegin(data, blob, NewRow(p), proc[p].workspace, proc[p].name, ok)
       IN /\ data' = r.data
          /\ blob' = r.blob
          /\ IF ok THEN Finish(p, "ok") /\ UNCHANGED faulted ELSE Throw(p)

SmallTx(p) == Transaction(p, "s_tx")

\* a large saveBlob arrives: uploadLargeFile puts the object and digests the stream
LargePutOf(p, ws, types) ==
  \E w \in ws, n \in Names, c \in Contents, t \in types :
    /\ SavePath(Size(c)) = "large"
    /\ UNCHANGED <<data, blob, cache>>
    /\ \/ /\ bucket' = BucketPut(bucket, selectStorage(w).bucket,
                                 getUniqueFilename(ingests + 1), c, t)
          /\ BeginIngest(p, [SaveCall(w, n, c, t) EXCEPT !.pc = "l_get",
                               !.hash = digestToUUID(Digest("sha256", c))])
          /\ UNCHANGED faulted
       \/ /\ BeginIngest(p, [SaveCall(w, n, c, t) EXCEPT !.pc = "done", !.status = "error"])
          /\ faulted' = TRUE
          /\ UNCHANGED bucket

LargePut(p) == LargePutOf(p, Workspaces, Types)

\* db.getData after the object is in the bucket: the two branches
LookupAfterPut(p, at, found, fresh) ==
  /\ proc[p].pc = at
  /\ Step(p, IF getData(data, proc[p].hash, Loc(p)) # {}
               THEN [proc[p] EXCEPT !.pc = found, !.pend = {"delete", "blob"}]
               ELSE [proc[p] EXCEPT !.pc = fresh])
  /\ UNCHANGED <<data, blob, bucket, cache, faulted, ingests>>

\* the large path taking the insert branch without looking at the lookup's result
LargeGetDataNoLookup(p) == LookupAfterPut(p, "l_get", "l_tx", "l_tx")

LargeGetData(p) == LookupAfterPut(p, "l_get", "l_dedup", "l_tx")

\* Promise.all([bucket.delete, db.createBlob]): settled once both have ended,
\* fulfilled when both have succeeded
Settle(p, part, ok) ==
  LET pend == proc[p].pend \ {part}
      won == IF ok THEN proc[p].won \cup {part} ELSE proc[p].won
  IN Step(p, IF pend = {}
               THEN [proc[p] EXCEPT !.pend = pend, !.won = won, !.pc = "done",
                                    !.status = IF won = {"delete", "blob"} THEN "ok" ELSE "error"]
               ELSE [proc[p] EXCEPT !.pend = pend, !.won = won])

\* the redundant object left in the bucket
DedupDeleteKeeps(p, at) ==
  /\ proc[p].pc = at
  /\ "delete" \in proc[p].pend
  /\ Settle(p, "delete", TRUE)
  /\ UNCHANGED <<data, blob, bucket, cache, faulted, ingests>>

\* bucket.delete of the object the found Data row names instead of the call's own
DedupDeleteFound(p, at) ==
  /\ proc[p].pc = at
  /\ "delete" \in proc[p].pend
  /\ UNCHANGED <<data, blob, cache, ingests, faulted>>
  /\ bucket' = [bucket EXCEPT ![Bkt(p)] =
                  {o \in @ : \A r \in getData(data, proc[p].hash, Loc(p)) : o.key # r.filename}]
  /\ Settle(p, "delete", TRUE)

\* bucket.delete(filename) of the object the request has put or was handed
DedupDelete(p, at) ==
  /\ proc[p].pc = at
  /\ "delete" \in proc[p].pend
  /\ UNCHANGED <<data, blob, cache, ingests>>
  /\ \/ /\ bucket' = BucketDelete(bucket, Bkt(p), proc[p].filename)
        /\ Settle(p, "delete", TRUE)
        /\ UNCHANGED faulted
     \/ /\ faulted' = TRUE
        /\ Settle(p, "delete", FALSE)
        /\ UNCHANGED bucket

DedupBlob(p, at) ==
  /\ proc[p].pc = at
  /\ "blob" \in proc[p].pend
  /\ UNCHANGED <<data, bucket, cache, ingests>>
  /\ \/ /\ blob' = createBlob(blob, proc[p].workspace, proc[p].name, proc[p].hash, Loc(p))
        /\ Settle(p, "blob", TRUE)
        /\ UNCHANGED faulted
     \/ /\ faulted' = TRUE
        /\ Settle(p, "blob", FALSE)
        /\ UNCHANGED blob

LargeDedupDelete(p) == DedupDelete(p, "l_dedup")
LargeDedupBlob(p) == DedupBlob(p, "l_dedup")
LargeTx(p) == Transaction(p, "l_tx")

(* ------------------------- handleBlobUploaded ------------------------- *)

\* a client writes an object under a reserved key without passing saveBlob
ClientWriteOf(ws, types) ==
  \E w \in ws, k \in OobKeys, c \in OobContents, t \in types, m \in BOOLEAN :
    /\ NoneDone
    /\ BucketHead(bucket, selectStorage(w).bucket, k) = {}
    /\ \A r \in data : r.filename # k
    /\ \A q \in Procs : InFlight(q) => proc[q].filename # k
    /\ bucket' = [bucket EXCEPT ![selectStorage(w).bucket] =
                    @ \cup {[key |-> k, content |-> c, type |-> t, md5 |-> m]}]
    /\ UNCHANGED <<data, blob, cache, proc, faulted, ingests, served, collab, imp>>

ClientWrite == ClientWriteOf(Workspaces, Types)

\* the hash handleBlobUploaded gives the object o found by bucket.head, in the n-th call
UploadedHash(o, n) ==
  IF o.md5 THEN digestToUUID(Digest("md5", o.content)) ELSE randomUUID(n)

\* the type of an object whose head has no httpMetadata
NoMetadata == "undefined"

\* handleBlobUploaded going on with any object bucket.head returns
UploadedHeadAnyObject(p, ws) ==
  \E w \in ws, n \in Names, k \in OobKeys :
    /\ LET found == BucketHead(bucket, selectStorage(w).bucket, k)
           call == [Idle EXCEPT !.op = "uploaded", !.workspace = w, !.name = n, !.filename = k]
       IN IF found = {}
            THEN BeginIngest(p, [call EXCEPT !.pc = "done", !.status = "error"])
            ELSE LET o == CHOOSE x \in found : TRUE
                 IN BeginIngest(p, [call EXCEPT !.pc = "u_get",
                                      !.hash = UploadedHash(o, ingests + 1),
                                      !.content = o.content, !.type = o.type])
    /\ UNCHANGED <<data, blob, bucket, cache, faulted>>

\* handleBlobUploaded arrives: bucket.head(filename) gives 'blob not found' when
\* there is no object or the object has no httpMetadata, else the hash, size and
\* type of the object
UploadedHeadOf(p, ws) ==
  \E w \in ws, n \in Names, k \in OobKeys :
    /\ LET found == BucketHead(bucket, selectStorage(w).bucket, k)
           call == [Idle EXCEPT !.op = "uploaded", !.workspace = w, !.name = n, !.filename = k]
       IN IF found = {} \/ \A x \in found : x.type = NoMetadata
            THEN BeginIngest(p, [call EXCEPT !.pc = "done", !.status = "error"])
            ELSE LET o == CHOOSE x \in found : TRUE
                 IN BeginIngest(p, [call EXCEPT !.pc = "u_get",
                                      !.hash = UploadedHash(o, ingests + 1),
                                      !.content = o.content, !.type = o.type])
    /\ UNCHANGED <<data, blob, bucket, cache, faulted>>

UploadedHead(p) == UploadedHeadOf(p, Workspaces)

UploadedGetData(p) == LookupAfterPut(p, "u_get", "u_dedup", "u_tx")
\* the reconciliation leaving the redundant object in the bucket
UploadedDedupDeleteKeeps(p) == DedupDeleteKeeps(p, "u_dedup")
UploadedDedupDelete(p) == DedupDelete(p, "u_dedup")
UploadedDedupBlob(p) == DedupBlob(p, "u_dedup")
UploadedTx(p) == Transaction(p, "u_tx")

(* -------------------------- handleBlobDelete -------------------------- *)

\* a delete that also removes the object the blob points at
DeleteAllObject(p) ==
  \E w \in Workspaces, n \in Names :
    /\ blob' = deleteBlob(blob, w, n)
    /\ bucket' = [bucket EXCEPT ![selectStorage(w).bucket] =
                    {o \in @ : \A r \in getBlob(blob, data, w, n) : o.key # r.filename}]
    /\ Begin(p, [Idle EXCEPT !.op = "delete", !.workspace = w, !.name = n,
                             !.pc = "done", !.status = "204"])
    /\ UNCHANGED <<data, cache, faulted, ingests>>

\* handleBlobDelete arrives: Promise.all([db.deleteBlob, deleteVideo]), 204 when
\* both succeed, else 500
DeleteAllOf(p, ws, ns) ==
  \E w \in ws, n \in ns, dbOk \in BOOLEAN, videoOk \in BOOLEAN :
    /\ blob' = IF dbOk THEN deleteBlob(blob, w, n) ELSE blob
    /\ Begin(p, [Idle EXCEPT !.op = "delete", !.workspace = w, !.name = n, !.pc = "done",
                             !.status = IF dbOk /\ videoOk THEN "204" ELSE "500"])
    /\ faulted' = (faulted \/ ~(dbOk /\ videoOk))
    /\ UNCHANGED <<data, bucket, cache, ingests>>

DeleteAll(p) == DeleteAllOf(p, Workspaces, Names)

(* ---------------------- handleBlobGet, handleBlobHead ----------------- *)

CacheMatch(ch, workspace, name) == {e \in ch : e.workspace = workspace /\ e.name = name}

\* handleBlobGet arrives: cache.match(request), a hit is returned as it is
GetCacheMatchOf(p, ws, ns) ==
  \E w \in ws, n \in ns :
    /\ LET hit == CacheMatch(cache, w, n)
           call == [Idle EXCEPT !.op = "get", !.workspace = w, !.name = n]
       IN IF hit # {}
            THEN LET e == CHOOSE x \in hit : TRUE
                 IN Begin(p, [call EXCEPT !.pc = "done", !.status = e.status,
                                          !.body = e.body, !.type = e.type])
            ELSE Begin(p, [call EXCEPT !.pc = "g_blob"])
    /\ UNCHANGED <<data, blob, bucket, cache, faulted, ingests>>

GetCacheMatch(p) == GetCacheMatchOf(p, Workspaces, Names)

\* db.getBlob: 404 when the row is absent or deleted, else on with its filename
Resolved(rec, then) ==
  LET rows == getBlob(blob, data, rec.workspace, rec.name)
  IN IF rows = {} \/ (CHOOSE r \in rows : TRUE).deleted
       THEN [rec EXCEPT !.pc = "done", !.status = "404"]
       ELSE [rec EXCEPT !.pc = then, !.filename = (CHOOSE r \in rows : TRUE).filename]

GetBlobRow(p) ==
  /\ proc[p].pc = "g_blob"
  /\ Step(p, Resolved(proc[p], "g_object"))
  /\ UNCHANGED <<data, blob, bucket, cache, faulted, ingests>>

\* the response of a GET of object o to a request with or without a Range header
GetResponses(o) ==
  {RangeResponse([NoRequest EXCEPT !.size = Size(o.content), !.req = req], range) :
     <<req, range>> \in {x \in RangeRequests(Size(o.content)) \X UNION {ObjectRanges(q, Size(o.content)) : q \in RangeRequests(Size(o.content))} :
                           x[2] \in ObjectRanges(x[1], Size(o.content))}}

\* every response going on to cache.put, whatever its status
GetObjectCachesAll(p) ==
  /\ proc[p].pc = "g_object"
  /\ LET found == BucketHead(bucket, Bkt(p), proc[p].filename)
     IN IF found = {}
          THEN Step(p, [proc[p] EXCEPT !.pc = "g_put", !.status = "404"])
          ELSE LET o == CHOOSE x \in found : TRUE
               IN \E rsp \in GetResponses(o) :
                    Step(p, [proc[p] EXCEPT !.pc = "g_put", !.status = rsp.status,
                                            !.body = o.content, !.type = o.type])
  /\ UNCHANGED <<data, blob, bucket, cache, faulted, ingests>>

\* bucket.get with the request's range: 404, or the 200 or 206 response; a 200
\* goes on to the deferred cache.put
GetObject(p) ==
  /\ proc[p].pc = "g_object"
  /\ LET found == BucketHead(bucket, Bkt(p), proc[p].filename)
     IN IF found = {}
          THEN Finish(p, "404")
          ELSE LET o == CHOOSE x \in found : TRUE
               IN \E rsp \in GetResponses(o) :
                    Step(p, [proc[p] EXCEPT !.pc = IF rsp.status = "200" THEN "g_put" ELSE "done",
                                            !.status = rsp.status,
                                            !.body = o.content, !.type = o.type])
  /\ UNCHANGED <<data, blob, bucket, cache, faulted, ingests>>

\* ctx.waitUntil(cache.put(request, response.clone())) of a 200 response
GetCachePut(p) ==
  /\ proc[p].pc = "g_put"
  /\ cache' = {e \in cache : ~(e.workspace = proc[p].workspace /\ e.name = proc[p].name)}
                \cup {[workspace |-> proc[p].workspace, name |-> proc[p].name,
                       status |-> proc[p].status, body |-> proc[p].body,
                       type |-> proc[p].type]}
  /\ Step(p, [proc[p] EXCEPT !.pc = "done"])
  /\ UNCHANGED <<data, blob, bucket, faulted, ingests>>

\* handleBlobHead arrives: db.getBlob
HeadBlobRowOf(p, ws, ns) ==
  \E w \in ws, n \in ns :
    /\ Begin(p, Resolved([Idle EXCEPT !.op = "head", !.workspace = w, !.name = n], "h_head"))
    /\ UNCHANGED <<data, blob, bucket, cache, faulted, ingests>>

HeadBlobRow(p) == HeadBlobRowOf(p, Workspaces, Names)

\* bucket.head: 404 when the object is missing, else 200 without a body
HeadObject(p) ==
  /\ proc[p].pc = "h_head"
  /\ LET found == BucketHead(bucket, Bkt(p), proc[p].filename)
     IN IF found = {}
          THEN Finish(p, "404")
          ELSE Step(p, [proc[p] EXCEPT !.pc = "done", !.status = "200",
                                       !.type = (CHOOSE x \in found : TRUE).type])
  /\ UNCHANGED <<data, blob, bucket, cache, faulted, ingests>>

(* ------------------------ handleUploadFormData ------------------------ *)

\* the files of the form are saved by the saveBlob calls of files.map
FormSmallGetData(p) == SmallGetDataOf(p, Workspaces, FormTypes)
FormLargePut(p) == LargePutOf(p, Workspaces, FormTypes)

\* one rejected part rejecting the whole Promise.all: every part ends as an error
PartSettlesAborts(p) ==
  /\ proc[p].pc = "done"
  /\ proc' = [q \in Procs |->
                IF proc[q].pc = "idle" THEN proc[q]
                ELSE [proc[q] EXCEPT !.pc = "settled",
                        !.result = IF proc[p].status = "ok" /\ q = p THEN "metadata" ELSE "error"]]
  /\ UNCHANGED <<data, blob, bucket, cache, faulted, ingests, served, collab, imp>>

\* the rest of a file's callback once its saveBlob has returned or thrown:
\* copyVideo for a video, then { key, metadata }; any throw is caught as { key, error }
PartSettles(p) ==
  /\ proc[p].pc = "done"
  /\ UNCHANGED <<data, blob, bucket, cache, ingests, served, collab, imp>>
  /\ IF proc[p].status # "ok"
       THEN /\ proc' = [proc EXCEPT ![p] = [@ EXCEPT !.pc = "settled", !.result = "error"]]
            /\ UNCHANGED faulted
       ELSE IF proc[p].type \in VideoTypes
         THEN \/ /\ proc' = [proc EXCEPT ![p] = [@ EXCEPT !.pc = "settled", !.result = "metadata"]]
                 /\ UNCHANGED faulted
              \/ /\ proc' = [proc EXCEPT ![p] = [@ EXCEPT !.pc = "settled", !.result = "error"]]
                 /\ faulted' = TRUE
         ELSE /\ proc' = [proc EXCEPT ![p] = [@ EXCEPT !.pc = "settled", !.result = "metadata"]]
              /\ UNCHANGED faulted

\* Promise.all over the parts has settled: json(result)
FormResponds ==
  /\ \E p \in Procs : proc[p].pc = "settled"
  /\ \A p \in Procs : proc[p].pc \in {"idle", "settled"}
  /\ proc' = [p \in Procs |-> Idle]
  /\ UNCHANGED <<data, blob, bucket, cache, faulted, ingests, served, collab, imp>>

(* ----------------------- handleBlobGet with a Range ------------------- *)

\* a GET of an object of some size with some Range header has resolved its blob
InitRange ==
  /\ data = {}
  /\ blob = {}
  /\ bucket = [b \in Locations |-> {}]
  /\ cache = {}
  /\ proc = [p \in Procs |-> Idle]
  /\ faulted = FALSE
  /\ ingests = 0
  /\ collab = NoCollab
  /\ imp = NoImport
  /\ \E size \in 1..MaxSize, req \in RangeRequests(MaxSize) :
       /\ req \in RangeRequests(size)
       /\ served = [NoRequest EXCEPT !.pc = "asked", !.size = size, !.req = req]

\* bucket.get(blob.filename, { range }) and the response built from it
GetRange ==
  /\ served.pc = "asked"
  /\ \E range \in ObjectRanges(served.req, served.size) :
       served' = RangeResponse(served, range)
  /\ UNCHANGED <<data, blob, bucket, cache, proc, faulted, ingests, collab, imp>>

\* the response is sent
GetRangeDone ==
  /\ served.pc = "answered"
  /\ served' = [served EXCEPT !.pc = "sent"]
  /\ UNCHANGED <<data, blob, bucket, cache, proc, faulted, ingests, collab, imp>>

(* ------------------------------- router ------------------------------- *)

Methods == {"GET", "HEAD", "DELETE", "POST"}

\* the paths of /blob/:workspace/:name, of /upload/form-data/:workspace, and a
\* path only the catch-all route matches
Paths == {"blob", "form-data", "other"}

\* a route parameter that is undefined
NoParam == "undefined"
WorkspaceParams == Workspaces \cup {"", NoParam}
NameParams == Names \cup {"", NoParam}

\* the Content-Type header of a request ("null": none) and what request.formData()
\* makes of its body
ContentTypes == {"null", "application/json", "multipart/form-data; boundary=x"}
Bodies == {"parsable", "unparsable"}

\* the method of new Request(url, init): init.method, GET without an init
RequestMethod(init) == IF init = "none" THEN "GET" ELSE init

\* the handler of the first route that matches the method and the path
Route(method, path) ==
  IF path = "blob" /\ method = "GET" THEN "handleBlobGet"
  ELSE IF path = "blob" /\ method = "HEAD" THEN "handleBlobHead"
  ELSE IF path = "blob" /\ method = "DELETE" THEN "handleBlobDelete"
  ELSE IF path = "form-data" /\ method = "POST" THEN "handleUploadFormData"
  ELSE "404"

withWorkspace(workspace) ==
  IF workspace = NoParam \/ workspace = "" THEN "400" ELSE "next"

\* the name checked without the workspace
withBlobNameOnly(workspace, name) ==
  IF name = NoParam \/ name = "" THEN "400" ELSE "next"

withBlob(workspace, name) ==
  IF workspace = NoParam \/ workspace = "" THEN "400"
  ELSE IF name = NoParam \/ name = "" THEN "400"
  ELSE "next"

\* router.fetch: the handlers of the matching route in order, the first response
\* returned is the answer; gives the status of that response or the handler that
\* is to run
Dispatch(method, path, workspace, name) ==
  LET handler == Route(method, path)
  IN IF handler = "404" THEN "404"
     ELSE IF handler = "handleUploadFormData"
       THEN (IF withWorkspace(workspace) = "400" THEN "400" ELSE handler)
       ELSE (IF withBlob(workspace, name) = "400" THEN "400" ELSE handler)

IncludesMultipart(contentType) == contentType = "multipart/form-data; boundary=x"

\* handleUploadFormData before it reads the files: 400 without a multipart
\* Content-Type, 400 when request.formData() throws
ParseForm(contentType, body) ==
  IF contentType = "null" \/ ~IncludesMultipart(contentType) THEN "400"
  ELSE IF body = "unparsable" THEN "400"
  ELSE "files"

HttpGet(p) ==
  \E w \in WorkspaceParams, n \in NameParams :
    /\ Dispatch("GET", "blob", w, n) = "handleBlobGet"
    /\ GetCacheMatchOf(p, {w}, {n})

HttpHead(p) ==
  \E w \in WorkspaceParams, n \in NameParams :
    /\ Dispatch("HEAD", "blob", w, n) = "handleBlobHead"
    /\ HeadBlobRowOf(p, {w}, {n})

HttpDelete(p) ==
  \E w \in WorkspaceParams, n \in NameParams :
    /\ Dispatch("DELETE", "blob", w, n) = "handleBlobDelete"
    /\ DeleteAllOf(p, {w}, {n})

\* POST /upload/form-data/:workspace with one file part: its saveBlob
HttpPostSmall(p) ==
  \E w \in WorkspaceParams, ct \in ContentTypes, body \in Bodies :
    /\ Dispatch("POST", "form-data", w, NoParam) = "handleUploadFormData"
    /\ ParseForm(ct, body) = "files"
    /\ SmallGetDataOf(p, {w}, Types)

HttpPostLarge(p) ==
  \E w \in WorkspaceParams, ct \in ContentTypes, body \in Bodies :
    /\ Dispatch("POST", "form-data", w, NoParam) = "handleUploadFormData"
    /\ ParseForm(ct, body) = "files"
    /\ LargePutOf(p, {w}, Types)

\* a request answered before its handler touches a store
Reject(p, rec, status) ==
  /\ Begin(p, [rec EXCEPT !.pc = "done", !.status = status])
  /\ UNCHANGED <<data, blob, bucket, cache, faulted, ingests>>

\* the router answers: 404 of the catch-all route, 400 of withWorkspace or withBlob
RouterRejects(p) ==
  \E method \in Methods, path \in Paths :
    \E w \in IF path = "other" THEN {NoParam} ELSE WorkspaceParams,
       n \in IF path = "blob" THEN NameParams ELSE {NoParam} :
      /\ Dispatch(method, path, w, n) \in {"400", "404"}
      /\ Reject(p, [Idle EXCEPT !.op = "fetch", !.method = method, !.path = path,
                                !.workspace = w, !.name = n],
                Dispatch(method, path, w, n))

\* handleUploadFormData answers 400 before it reads a file
FormRejects(p) ==
  \E w \in WorkspaceParams, ct \in ContentTypes, body \in Bodies :
    /\ Dispatch("POST", "form-data", w, NoParam) = "handleUploadFormData"
    /\ ParseForm(ct, body) = "400"
    /\ Reject(p, [Idle EXCEPT !.op = "fetch", !.method = "POST", !.path = "form-data",
                              !.workspace = w, !.name = NoParam, !.type = ct, !.form = body],
              "400")

\* DatalakeWorker.putBlob: new Request(url) without an init, router.fetch(request,
\* { method: 'POST', body }) where the second argument is what the handlers get
\* as env; a response that is not ok is thrown
PutBlob(p) ==
  \E w \in Workspaces, n \in Names, c \in Contents, t \in Types :
    LET method == RequestMethod("none")
        answer == Dispatch(method, "form-data", w, NoParam)
    IN IF answer = "handleUploadFormData"
         THEN /\ SmallGetDataOf(p, {w}, {t}) \/ LargePutOf(p, {w}, {t})
              /\ proc'[p].name = n /\ proc'[p].content = c
         ELSE Reject(p, [Idle EXCEPT !.op = "putBlob", !.method = method, !.path = "form-data",
                                     !.workspace = w, !.name = n, !.content = c, !.type = t,
                                     !.result = "error"],
                     answer)

\* DatalakeWorker.getBlob: new Request(url), router.fetch(request) without env and
\* ctx: handleBlobGet answers a cache hit, and throws when it selects the
\* storage of an undefined env
GetBlobCall(p) ==
  \E w \in Workspaces, n \in Names :
    LET method == RequestMethod("none")
        answer == Dispatch(method, "blob", w, n)
        hit == CacheMatch(cache, w, n)
        call == [Idle EXCEPT !.op = "getBlob", !.method = method, !.path = "blob",
                             !.workspace = w, !.name = n]
    IN IF answer = "handleBlobGet"
         THEN IF hit # {}
                THEN LET e == CHOOSE x \in hit : TRUE
                     IN Reject(p, [call EXCEPT !.body = e.body, !.type = e.type], e.status)
                ELSE Reject(p, [call EXCEPT !.result = "error"], "error")
         ELSE Reject(p, [call EXCEPT !.result = "error"], answer)

(* ------------------------------ withRetry ----------------------------- *)

\* the errors an op can throw and the values it can return
Errors == {"e1", "e2"}
Values == {"v1", "v2"}

\* withRetry is entered: let error (undefined), the loop is at its condition;
\* log keeps what each invocation of op gave
NewRetry(retries) ==
  [pc |-> "loop", retries |-> retries, waits |-> 0, error |-> "undefined",
   result |-> "none", log |-> <<>>]

\* an attempt that also waits after the last failure
AttemptWaitsAlways(r, ok, x) ==
  IF ok
    THEN [r EXCEPT !.retries = @ - 1, !.log = Append(@, x), !.pc = "returned", !.result = x]
    ELSE [r EXCEPT !.retries = @ - 1, !.log = Append(@, x), !.error = x, !.pc = "wait"]

\* one turn of the loop: retries--, op() returns x or throws x; after a throw the
\* delay is awaited unless retries has reached 0
Attempt(r, ok, x) ==
  IF ok
    THEN [r EXCEPT !.retries = @ - 1, !.log = Append(@, x), !.pc = "returned", !.result = x]
    ELSE [r EXCEPT !.retries = @ - 1, !.log = Append(@, x), !.error = x,
                   !.pc = IF r.retries - 1 # 0 THEN "wait" ELSE "loop"]

\* the delay has passed
Waited(r) == [r EXCEPT !.waits = @ + 1, !.pc = "loop"]

\* the loop condition fails: throw error
Exhausted(r) == [r EXCEPT !.pc = "thrown"]

\* the records one step of withRetry can lead to from r, op returning a value of
\* values or throwing an error of errors
RetrySteps(r, values, errors) ==
  IF r.pc = "loop" /\ r.retries > 0
    THEN {Attempt(r, TRUE, v) : v \in values} \cup {Attempt(r, FALSE, e) : e \in errors}
  ELSE IF r.pc = "loop" THEN {Exhausted(r)}
  ELSE IF r.pc = "wait" THEN {Waited(r)}
  ELSE {}

\* a call withRetry(ctx, retries, op)
InitRetry ==
  /\ data = {}
  /\ blob = {}
  /\ bucket = [b \in Locations |-> {}]
  /\ cache = {}
  /\ proc = [p \in Procs |-> Idle]
  /\ faulted = FALSE
  /\ ingests = 0
  /\ served = NoRequest
  /\ imp = NoImport
  /\ \E n \in 0..MaxRetries : collab = [op |-> "withRetry", given |-> n, r |-> NewRetry(n)]

RetryCall ==
  /\ collab.r.pc = "loop" /\ collab.r.retries > 0
  /\ \E r \in RetrySteps(collab.r, Values, Errors) : collab' = [collab EXCEPT !.r = r]
  /\ UNCHANGED <<datalake, imp>>

RetryWait ==
  /\ collab.r.pc = "wait"
  /\ \E r \in RetrySteps(collab.r, Values, Errors) : collab' = [collab EXCEPT !.r = r]
  /\ UNCHANGED <<datalake, imp>>

RetryThrow ==
  /\ collab.r.pc = "loop" /\ collab.r.retries <= 0
  /\ \E r \in RetrySteps(collab.r, Values, Errors) : collab' = [collab EXCEPT !.r = r]
  /\ UNCHANGED <<datalake, imp>>

(* ----------------------- PlatformStorageAdapter ----------------------- *)

\* the error a storage or platform operation throws
IoErrors == {"e1"}

\* the document of a saveDocument call, the ydoc markupToYDocNoSchema derives
\* from the initial content, the blob saveCollabJson stores
Document == "ydoc-of-editor"
Derived == "ydoc-of-content"
JsonBlob == "blob-of-markup"

\* no call at work; ydoc is the stored ydoc of the document, attr the value of
\* the platform object's attribute, msgs the DocUpdateMessages, json the blobs
\* saveCollabJson has stored; trace lists the effects of the call at work
CollabIdle ==
  [op |-> "idle", pc |-> "idle", r |-> NewRetry(0), ydoc |-> "none", attr |-> "none",
   msgs |-> 0, json |-> 0, client |-> "none", trace |-> <<>>, result |-> "none",
   content |-> "none", attribute |-> "none", current |-> "none", calls |-> 0,
   had |-> "none"]

InitCollab ==
  /\ data = {}
  /\ blob = {}
  /\ bucket = [b \in Locations |-> {}]
  /\ cache = {}
  /\ proc = [p \in Procs |-> Idle]
  /\ faulted = FALSE
  /\ ingests = 0
  /\ served = NoRequest
  /\ imp = NoImport
  /\ collab = CollabIdle

CollabStep(rec) == collab' = rec /\ UNCHANGED <<datalake, imp>>

\* the call ends: it returns result or throws
CollabEnds(rec, result) == CollabStep([rec EXCEPT !.pc = "done", !.result = result])

\* the trace after a step of the withRetry at work: an attempt of the operation
\* is listed with its outcome, a wait or the final throw is not
Attempted(trace, r, returned, failed) ==
  IF Len(r.log) = Len(collab.r.log) THEN trace
  ELSE IF r.pc = "returned" THEN Append(trace, returned)
  ELSE Append(trace, failed)

\* the call at work takes a step of its withRetry
Retrying == RetrySteps(collab.r, {"value"}, IoErrors)

(* loadDocument *)

\* loadDocument is called, with or without initial content
LoadDocument ==
  /\ collab.pc = "idle" /\ collab.calls < MaxCalls
  /\ \E content \in {"none", "content"} :
       CollabStep([collab EXCEPT !.op = "load", !.pc = "l_ydoc", !.r = NewRetry(LoadRetries),
                                 !.content = content, !.calls = @ + 1, !.had = collab.ydoc,
                                 !.trace = <<>>, !.result = "none"])

\* withRetry(ctx, 5, loadCollabYdoc): the stored ydoc is returned if there is
\* one; undefined leads on to the initial content, if given
LoadYdoc ==
  /\ collab.pc = "l_ydoc"
  /\ \E r \in Retrying :
       LET rec == [collab EXCEPT !.r = r,
                     !.trace = Attempted(@, r, "loadYdoc", "loadYdoc failed")]
       IN IF r.pc = "thrown" THEN CollabEnds(rec, "thrown")
          ELSE IF r.pc # "returned" THEN CollabStep(rec)
          ELSE IF collab.ydoc # "none" THEN CollabEnds(rec, collab.ydoc)
          ELSE IF collab.content = "none" THEN CollabEnds(rec, "undefined")
          ELSE CollabStep([rec EXCEPT !.pc = "l_json", !.r = NewRetry(LoadRetries)])

\* withRetry(ctx, 5, loadCollabJson): the markup of the content or undefined
LoadJson ==
  /\ collab.pc = "l_json"
  /\ \E r \in Retrying, markup \in {"markup", "undefined"} :
       LET rec == [collab EXCEPT !.r = r,
                     !.trace = Attempted(@, r, "loadJson", "loadJson failed")]
       IN IF r.pc = "thrown" THEN CollabEnds(rec, "thrown")
          ELSE IF r.pc # "returned" THEN markup = "markup" /\ CollabStep(rec)
          ELSE IF markup = "undefined" THEN CollabEnds(rec, "undefined")
          ELSE CollabStep([rec EXCEPT !.pc = "l_save"])

\* the derived ydoc returned without being saved
LoadSaveSkipped ==
  /\ collab.pc = "l_save"
  /\ CollabEnds(collab, Derived)

\* markupToYDocNoSchema, saveCollabYdoc, return ydoc
LoadSave ==
  /\ collab.pc = "l_save"
  /\ \/ CollabEnds([collab EXCEPT !.ydoc = Derived, !.trace = Append(@, "saveYdoc")], Derived)
     \/ CollabEnds([collab EXCEPT !.trace = Append(@, "saveYdoc failed")], "thrown")

(* saveDocument *)

\* the platform written whether the ydoc save succeeded or not
SaveYdocGoesOn(rec, r) ==
  IF r.pc = "returned" THEN [rec EXCEPT !.pc = "p_attribute", !.ydoc = Document]
  ELSE IF r.pc = "thrown" THEN [rec EXCEPT !.pc = "p_attribute"]
  ELSE rec

\* the saveCollabYdoc of saveDocument has settled: on to saveDocumentToPlatform,
\* or the error rethrown through the finally
SaveYdocSettled(rec, r) ==
  IF r.pc = "returned" THEN [rec EXCEPT !.pc = "p_attribute", !.ydoc = Document]
  ELSE IF r.pc = "thrown" THEN [rec EXCEPT !.pc = "s_close", !.result = "thrown"]
  ELSE rec

\* saveDocument is called: clientFactory() gives the client or throws; the
\* platform object and its attribute are what the call will find
SaveDocument ==
  /\ collab.pc = "idle" /\ collab.calls < MaxCalls
  /\ \E attribute \in {"undefined", "markup", "collaborative"},
        current \in {"undefined", "object"}, connected \in BOOLEAN :
       LET call == [collab EXCEPT !.op = "save", !.calls = @ + 1, !.had = collab.ydoc,
                                  !.attribute = attribute, !.current = current,
                                  !.client = "none", !.result = "none",
                                  !.trace = <<"connect">>]
       IN IF connected
            THEN CollabStep([call EXCEPT !.pc = "s_ydoc", !.r = NewRetry(SaveRetries),
                                         !.client = "open"])
            ELSE CollabEnds(call, "thrown")

\* withRetry(ctx, 5, saveCollabYdoc)
SaveYdoc ==
  /\ collab.pc = "s_ydoc"
  /\ \E r \in Retrying :
       CollabStep(SaveYdocSettled(
         [collab EXCEPT !.r = r,
            !.trace = Attempted(@, r, "saveYdoc", "saveYdoc failed")], r))

\* finally: client.close()
SaveClose ==
  /\ collab.pc = "s_close"
  /\ \E closed \in BOOLEAN :
       CollabEnds([collab EXCEPT !.client = "closed", !.trace = Append(@, "close")],
                  IF closed /\ collab.result = "none" THEN "ok" ELSE "thrown")

(* saveDocumentToPlatform *)

\* the platform written for any attribute of the object
PlatformTypeAny ==
  /\ collab.pc = "p_type"
  /\ CollabStep([collab EXCEPT !.pc = "p_json", !.r = NewRetry(SaveRetries)])

\* findAttribute: an unknown attribute ends the call without a write
PlatformAttribute ==
  /\ collab.pc = "p_attribute"
  /\ CollabStep([collab EXCEPT !.pc = IF collab.attribute = "undefined" THEN "s_close" ELSE "p_query"])

\* client.findOne: no object ends the call without a write
PlatformQuery ==
  /\ collab.pc = "p_query"
  /\ \/ CollabStep([collab EXCEPT !.trace = Append(@, "findOne"),
                      !.pc = IF collab.current = "undefined" THEN "s_close" ELSE "p_type"])
     \/ CollabStep([collab EXCEPT !.trace = Append(@, "findOne"), !.pc = "s_close",
                                  !.result = "thrown"])

\* isDerived(attribute.type._class, TypeCollaborativeDoc): another type ends the
\* call without a write
PlatformType ==
  /\ collab.pc = "p_type"
  /\ CollabStep(IF collab.attribute = "collaborative"
                  THEN [collab EXCEPT !.pc = "p_json", !.r = NewRetry(SaveRetries)]
                  ELSE [collab EXCEPT !.pc = "s_close"])

\* withRetry(ctx, 5, saveCollabJson) gives the blob id
PlatformJson ==
  /\ collab.pc = "p_json"
  /\ \E r \in Retrying :
       LET rec == [collab EXCEPT !.r = r,
                     !.trace = Attempted(@, r, "saveCollabJson", "saveCollabJson failed")]
       IN IF r.pc = "thrown" THEN CollabStep([rec EXCEPT !.pc = "s_close", !.result = "thrown"])
          ELSE IF r.pc # "returned" THEN CollabStep(rec)
          ELSE CollabStep([rec EXCEPT !.pc = "p_update", !.json = @ + 1])

\* client.diffUpdate(current, { [objectAttr]: blobId })
PlatformUpdate ==
  /\ collab.pc = "p_update"
  /\ \/ CollabStep([collab EXCEPT !.pc = "p_activity", !.attr = JsonBlob,
                                  !.trace = Append(@, "diffUpdate")])
     \/ CollabStep([collab EXCEPT !.pc = "s_close", !.result = "thrown"])

\* client.addCollection(activity.class.DocUpdateMessage, ...)
PlatformActivity ==
  /\ collab.pc = "p_activity"
  /\ \/ CollabStep([collab EXCEPT !.pc = "s_close", !.msgs = @ + 1,
                                  !.trace = Append(@, "DocUpdateMessage")])
     \/ CollabStep([collab EXCEPT !.pc = "s_close", !.result = "thrown"])

\* the caller has the outcome; the adapter is ready for the next call
CollabReturns ==
  /\ collab.pc = "done"
  /\ CollabStep([collab EXCEPT !.op = "idle", !.pc = "idle"])

(* --------------------------- ClickUp importer -------------------------- *)

\* the values of the 'Task ID', 'Parent ID' and 'Space Name' columns
TaskIds == {"t1", "t2", "t3"}
ParentIds == TaskIds \cup {"null"}
SpaceNames == {"s1", "s2", "null"}
ClickupTasks == [id : TaskIds, parent : ParentIds, space : SpaceNames]

RECURSIVE SeqsUpTo(_, _)
\* the sequences over S of length at most n
SeqsUpTo(S, n) ==
  IF n = 0 THEN {<<>>}
  ELSE LET shorter == SeqsUpTo(S, n - 1)
       IN shorter \cup {Append(q, x) : q \in {t \in shorter : Len(t) = n - 1}, x \in S}

\* the elements of a sequence
Range(q) == {q[i] : i \in 1..Len(q)}

\* processClickupTasks is called on a CSV file: rows are its task rows, a task
\* is named by the number of its row; byId is importIssuesByClickupId (0: no
\* entry), order its keys in insertion order, projects the set of space names
\* in insertion order, docs the docs of the import projects and subdocs the
\* subdocs of the import issues
InitClickup ==
  /\ data = {}
  /\ blob = {}
  /\ bucket = [b \in Locations |-> {}]
  /\ cache = {}
  /\ proc = [p \in Procs |-> Idle]
  /\ faulted = FALSE
  /\ ingests = 0
  /\ served = NoRequest
  /\ collab = NoCollab
  /\ \E rows \in SeqsUpTo(ClickupTasks, MaxRows) :
       imp = [pc |-> "csv", rows |-> rows, i |-> 1,
              byId |-> [t \in TaskIds |-> 0], order |-> <<>>, projects |-> <<>>,
              docs |-> [s \in SpaceNames |-> <<>>], subdocs |-> [n \in 1..Len(rows) |-> <<>>],
              error |-> "none"]

ImportStep(rec) == imp' = rec /\ UNCHANGED <<datalake, collab>>

\* Map.set and Set.add keep the place of a key that is already there
Inserted(q, x) == IF x \in Range(q) THEN q ELSE Append(q, x)

\* the issue pushed to the subdocs of its parent or to the docs of its project,
\* or the error thrown
Attach(rec, child) ==
  LET task == rec.rows[child]
  IN IF task.parent # "null"
       THEN IF rec.byId[task.parent] = 0
              THEN [rec EXCEPT !.pc = "thrown", !.error = "Parent not found"]
              ELSE [rec EXCEPT !.subdocs[rec.byId[task.parent]] = Append(@, child)]
     ELSE IF task.space # "null"
       THEN IF task.space \notin Range(rec.projects)
              THEN [rec EXCEPT !.pc = "thrown", !.error = "Project not found"]
              ELSE [rec EXCEPT !.docs[task.space] = Append(@, child)]
     ELSE [rec EXCEPT !.pc = "thrown", !.error = "Task cannot be imported"]

\* the callback of processTasksCsv for the next row of the file
ProcessTask ==
  /\ imp.pc = "csv" /\ imp.i <= Len(imp.rows)
  /\ LET task == imp.rows[imp.i]
     IN ImportStep([imp EXCEPT !.byId[task.id] = imp.i,
                               !.order = Inserted(@, task.id),
                               !.projects = Inserted(@, task.space),
                               !.i = @ + 1])

\* importProjectsByName gets a project with no docs for every space name
CreateProjects ==
  /\ imp.pc = "csv" /\ imp.i > Len(imp.rows)
  /\ ImportStep([imp EXCEPT !.pc = "attach", !.i = 1])

\* for (const [clickupId, issue] of importIssuesByClickupId)
AttachIssue ==
  /\ imp.pc = "attach" /\ imp.i <= Len(imp.order)
  /\ ImportStep(Attach([imp EXCEPT !.i = @ + 1], imp.byId[imp.order[imp.i]]))

\* return { projects, projectType }
ReturnProjects ==
  /\ imp.pc = "attach" /\ imp.i > Len(imp.order)
  /\ ImportStep([imp EXCEPT !.pc = "returned"])

(* -------------------------- WorkspaceImporter -------------------------- *)

\* identifiers are strings, modelled as sequences of characters
Digits == <<"0", "1", "2", "3", "4", "5", "6", "7", "8", "9">>

RECURSIVE Decimal(_)
\* `${i}`
Decimal(i) == IF i < 10 THEN <<Digits[i + 1]>> ELSE Decimal(i \div 10) \o <<Digits[(i % 10) + 1]>>

\* the identifiers the import data gives its projects, and the identifiers of
\* the projects the workspace may hold before the import
BaseIdentifiers == {<<"A">>, <<"A", "1">>}
ExistingIdentifiers == {<<"A">>, <<"A", "1">>, <<"A", "2">>}

\* tracker.ids.NoParent; a created issue is named by its place among the
\* created issues, as generateId gives every issue an id of its own
NoParent == 0

\* the base identifier returned whether it is taken or not
uniqueProjectIdentifierBase(baseIdentifier, projectsIdentifiers) == baseIdentifier

RECURSIVE NextUnused(_, _, _, _)
\* while (projectsIdentifiers.has(identifier)) { identifier = `${baseIdentifier}${i}`; i++ }
NextUnused(baseIdentifier, identifier, i, projectsIdentifiers) ==
  IF identifier \in projectsIdentifiers
    THEN NextUnused(baseIdentifier, baseIdentifier \o Decimal(i), i + 1, projectsIdentifiers)
    ELSE identifier

uniqueProjectIdentifier(baseIdentifier, projectsIdentifiers) ==
  NextUnused(baseIdentifier, baseIdentifier, 1, projectsIdentifiers)

\* `${project.identifier}-${number}`
IssueIdentifier(project, number) == project.identifier \o <<"-">> \o Decimal(number)

\* the parents of a sub-issue listed from the root down
parentsInfoRootFirst(info, parentsInfo) == Append(parentsInfo, info)

\* parentsInfoEx = [{ parentId, identifier, ... }, ...parentsInfo]
parentsInfoEx(info, parentsInfo) == <<info>> \o parentsInfo

\* the import data: issues 1..n, parent[n] the issue whose subdocs hold n (0:
\* n is in the docs of project home[n]); two projects with their identifiers
ImportData ==
  {d \in [parent : UNION {[1..n -> 0..MaxIssues] : n \in 0..MaxIssues},
          home : UNION {[1..n -> {1, 2}] : n \in 0..MaxIssues},
          bases : BaseIdentifiers \X BaseIdentifiers] :
     /\ DOMAIN d.parent = DOMAIN d.home
     /\ \A n \in DOMAIN d.parent :
          /\ d.parent[n] < n
          /\ d.parent[n] # 0 => d.home[n] = d.home[d.parent[n]]}

\* the subdocs of an issue, the docs of a project
Subdocs(d, n) == {m \in DOMAIN d.parent : d.parent[m] = n}
Docs(d, s) == {m \in DOMAIN d.parent : d.parent[m] = 0 /\ d.home[m] = s}

RECURSIVE Calls(_, _, _)
\* the calls createIssueWithSubissues(issue, parentId, project, parentsInfo) a
\* for loop over the issues of a set makes, in order
Calls(issues, parentId, parentsInfo) ==
  IF issues = {} THEN <<>>
  ELSE LET first == CHOOSE n \in issues : \A m \in issues : n <= m
       IN <<[issue |-> first, parentId |-> parentId, parentsInfo |-> parentsInfo]>>
            \o Calls(issues \ {first}, parentId, parentsInfo)

\* new WorkspaceImporter(client, fileUploader, workspaceData): identifiers are
\* the identifiers of the Project docs of the workspace, projects the Project
\* docs and issues the Issue docs the import has created, todo the calls of
\* createIssueWithSubissues still to be made for the project at work
InitImport ==
  /\ data = {}
  /\ blob = {}
  /\ bucket = [b \in Locations |-> {}]
  /\ cache = {}
  /\ proc = [p \in Procs |-> Idle]
  /\ faulted = FALSE
  /\ ingests = 0
  /\ served = NoRequest
  /\ collab = NoCollab
  /\ \E d \in ImportData, existing \in SUBSET ExistingIdentifiers :
       imp = [pc |-> "persons", workspaceData |-> d, identifiers |-> existing,
              existing |-> existing, projects |-> <<>>, issues |-> <<>>, todo |-> <<>>,
              space |-> 1, log |-> <<>>]

\* importPersons
ImportPersons ==
  /\ imp.pc = "persons"
  /\ ImportStep([imp EXCEPT !.pc = "projectTypes", !.log = Append(@, "persons")])

\* importProjectTypes
ImportProjectTypes ==
  /\ imp.pc = "projectTypes"
  /\ ImportStep([imp EXCEPT !.pc = "spaces", !.log = Append(@, "projectTypes")])

\* importProject: createProject with a unique identifier and sequence 0,
\* findOne, then the loop over project.docs
ImportProject ==
  /\ imp.pc = "spaces" /\ imp.space <= Len(imp.workspaceData.bases)
  /\ LET identifier == uniqueProjectIdentifier(imp.workspaceData.bases[imp.space], imp.identifiers)
         created == [imp EXCEPT !.log = Append(@, "spaces"),
                                !.projects = Append(@, [identifier |-> identifier, sequence |-> 0]),
                                !.identifiers = @ \cup {identifier}]
     IN \/ ImportStep([created EXCEPT !.pc = "issues",
                         !.todo = Calls(Docs(imp.workspaceData, imp.space), NoParent, <<>>)])
        \/ ImportStep([created EXCEPT !.pc = "thrown"])

\* createIssueWithSubissues: createIssue takes the next number of the project
\* and adds the issue to the subIssues of parentId; then the calls for the
\* subdocs; an issue whose status is not found makes the import throw
CreateIssueWithSubissues ==
  /\ imp.pc = "issues" /\ imp.todo # <<>>
  /\ LET call == Head(imp.todo)
         project == imp.projects[imp.space]
         number == project.sequence + 1
         identifier == IssueIdentifier(project, number)
         issueId == Len(imp.issues) + 1
         info == [parentId |-> issueId, identifier |-> identifier]
     IN \/ ImportStep([imp EXCEPT
             !.projects[imp.space].sequence = number,
             !.issues = Append(@, [of |-> call.issue, space |-> imp.space,
                                   attachedTo |-> call.parentId, parents |-> call.parentsInfo,
                                   number |-> number, identifier |-> identifier]),
             !.todo = Calls(Subdocs(imp.workspaceData, call.issue), issueId,
                            parentsInfoEx(info, call.parentsInfo)) \o Tail(@)])
        \/ ImportStep([imp EXCEPT !.pc = "thrown"])

\* importProject returns; importSpaces goes on to the next space
ProjectImported ==
  /\ imp.pc = "issues" /\ imp.todo = <<>>
  /\ ImportStep([imp EXCEPT !.pc = "spaces", !.space = @ + 1])

\* performImport returns
ImportReturns ==
  /\ imp.pc = "spaces" /\ imp.space > Len(imp.workspaceData.bases)
  /\ ImportStep([imp EXCEPT !.pc = "done"])

(* --------------------------- specification ---------------------------- *)

\* the response has been sent: the request leaves, the later ones keep their order
Forget(p) ==
  /\ proc[p].pc = "done"
  /\ proc' = [q \in Procs |-> IF q < p THEN proc[q]
                              ELSE IF q < NProcs THEN proc[q + 1] ELSE Idle]
  /\ UNCHANGED <<data, blob, bucket, cache, faulted, ingests, served, collab, imp>>

Quiet == \A q \in Procs : ~InFlight(q)

\* writers suspend at every await and interleave (readers change neither table
\* nor bucket)
Next ==
  \/ ClientWrite
  \/ \E p \in Procs :
       \/ SmallGetData(p)
       \/ SmallCreateBlob(p)
       \/ SmallPut(p)
       \/ SmallTx(p)
       \/ LargePut(p)
       \/ LargeGetData(p)
       \/ LargeDedupDelete(p)
       \/ LargeDedupBlob(p)
       \/ LargeTx(p)
       \/ UploadedHead(p)
       \/ UploadedGetData(p)
       \/ UploadedDedupDelete(p)
       \/ UploadedDedupBlob(p)
       \/ UploadedTx(p)
       \/ DeleteAll(p)
       \/ Forget(p)

Spec == Init /\ [][Next]_vars

\* all requests, readers too, served one after the other: a request arrives when
\* none is in flight
NextSeq ==
  \/ ClientWrite
  \/ \E p \in Procs :
       \/ Quiet /\ SmallGetData(p)
       \/ SmallCreateBlob(p)
       \/ SmallPut(p)
       \/ SmallTx(p)
       \/ Quiet /\ LargePut(p)
       \/ LargeGetData(p)
       \/ LargeDedupDelete(p)
       \/ LargeDedupBlob(p)
       \/ LargeTx(p)
       \/ Quiet /\ UploadedHead(p)
       \/ UploadedGetData(p)
       \/ UploadedDedupDelete(p)
       \/ UploadedDedupBlob(p)
       \/ UploadedTx(p)
       \/ Quiet /\ DeleteAll(p)
       \/ Quiet /\ GetCacheMatch(p)
       \/ GetBlobRow(p)
       \/ GetObject(p)
       \/ GetCachePut(p)
       \/ Quiet /\ HeadBlobRow(p)
       \/ HeadObject(p)
       \/ Forget(p)

SpecSeq == Init /\ [][NextSeq]_vars

\* one handleUploadFormData request after the other, the saveBlob calls of its
\* files interleaving
NextForm ==
  \/ FormResponds
  \/ \E p \in Procs :
       \/ FormSmallGetData(p)
       \/ SmallCreateBlob(p)
       \/ SmallPut(p)
       \/ SmallTx(p)
       \/ FormLargePut(p)
       \/ LargeGetData(p)
       \/ LargeDedupDelete(p)
       \/ LargeDedupBlob(p)
       \/ LargeTx(p)
       \/ PartSettles(p)

SpecForm == Init /\ [][NextForm]_vars

\* one GET with a Range header, from the object to the response
NextRange == GetRange \/ GetRangeDone

SpecRange == InitRange /\ [][NextRange]_vars

\* the requests of every tenant that select a storage, each tenant on the shard
\* selectStorage gives it, served one after the other: saveBlob (of files up to
\* the threshold), handleBlobUploaded, handleBlobGet and handleBlobHead
NextLoc ==
  \/ ClientWriteOf(Tenants, Types)
  \/ \E p \in Procs :
       \/ Quiet /\ SmallGetDataOf(p, Tenants, Types)
       \/ SmallCreateBlob(p)
       \/ SmallPut(p)
       \/ SmallTx(p)
       \/ Quiet /\ UploadedHeadOf(p, Tenants)
       \/ UploadedGetData(p)
       \/ UploadedDedupDelete(p)
       \/ UploadedDedupBlob(p)
       \/ UploadedTx(p)
       \/ Quiet /\ GetCacheMatchOf(p, Tenants, Names)
       \/ GetBlobRow(p)
       \/ GetObject(p)
       \/ GetCachePut(p)
       \/ Quiet /\ HeadBlobRowOf(p, Tenants, Names)
       \/ HeadObject(p)
       \/ Forget(p)

SpecLoc == Init /\ [][NextLoc]_vars

\* the requests of the HTTP surface and the calls of the programmatic surface,
\* served one after the other
NextRouter ==
  \E p \in Procs :
    \/ Quiet /\ HttpGet(p)
    \/ GetBlobRow(p)
    \/ GetObject(p)
    \/ GetCachePut(p)
    \/ Quiet /\ HttpHead(p)
    \/ HeadObject(p)
    \/ Quiet /\ HttpDelete(p)
    \/ Quiet /\ HttpPostSmall(p)
    \/ SmallCreateBlob(p)
    \/ SmallPut(p)
    \/ SmallTx(p)
    \/ Quiet /\ HttpPostLarge(p)
    \/ LargeGetData(p)
    \/ LargeDedupDelete(p)
    \/ LargeDedupBlob(p)
    \/ LargeTx(p)
    \/ Quiet /\ RouterRejects(p)
    \/ Quiet /\ FormRejects(p)
    \/ Quiet /\ PutBlob(p)
    \/ Quiet /\ GetBlobCall(p)
    \/ Forget(p)

SpecRouter == Init /\ [][NextRouter]_vars

\* objects written out of band, some without httpMetadata, and the
\* handleBlobUploaded calls for them interleaving with large saveBlob calls
NextUploaded ==
  \/ ClientWriteOf(Workspaces, Types \cup {NoMetadata})
  \/ \E p \in Procs :
       \/ LargePut(p)
       \/ LargeGetData(p)
       \/ LargeDedupDelete(p)
       \/ LargeDedupBlob(p)
       \/ LargeTx(p)
       \/ UploadedHead(p)
       \/ UploadedGetData(p)
       \/ UploadedDedupDelete(p)
       \/ UploadedDedupBlob(p)
       \/ UploadedTx(p)
       \/ Forget(p)

SpecUploaded == Init /\ [][NextUploaded]_vars

NextRetry == RetryCall \/ RetryWait \/ RetryThrow

\* an awaited op or timer settles
SpecRetry == InitRetry /\ [][NextRetry]_vars /\ WF_vars(NextRetry)

\* the calls of one PlatformStorageAdapter for one document, one after the other
NextCollab ==
  \/ LoadDocument
  \/ LoadYdoc
  \/ LoadJson
  \/ LoadSave
  \/ SaveDocument
  \/ SaveYdoc
  \/ SaveClose
  \/ PlatformAttribute
  \/ PlatformQuery
  \/ PlatformType
  \/ PlatformJson
  \/ PlatformUpdate
  \/ PlatformActivity
  \/ CollabReturns

SpecCollab == InitCollab /\ [][NextCollab]_vars

\* processClickupTasks on every CSV of at most MaxRows task rows
NextClickup ==
  \/ ProcessTask
  \/ CreateProjects
  \/ AttachIssue
  \/ ReturnProjects

SpecClickup == InitClickup /\ [][NextClickup]_vars

\* performImport on every import of at most MaxIssues issues in two projects
NextImport ==
  \/ ImportPersons
  \/ ImportProjectTypes
  \/ ImportProject
  \/ CreateIssueWithSubissues
  \/ ProjectImported
  \/ ImportReturns

SpecImport == InitImport /\ [][NextImport]_vars

(* ------------------------------ properties ---------------------------- *)

Done(p) == proc[p].pc = "done"
DoneOk(p) == Done(p) /\ proc[p].status = "ok"
Ingest(p) == proc[p].op \in {"save", "uploaded"}
SmallSave(p) == proc[p].op = "save" /\ Size(proc[p].content) <= hashLimit
LargeSave(p) == proc[p].op = "save" /\ Size(proc[p].content) > hashLimit
InBucket(p) == BucketHead(bucket, Bkt(p), proc[p].filename) # {}
RowsOf(p) == getData(data, proc[p].hash, Loc(p))
\* p has taken a step of its handler
Moved(p) == NoneDone /\ proc'[p] # proc[p]
\* the pointer request p upserts
Pointer(p) == [workspace |-> proc[p].workspace, name |-> proc[p].name,
               hash |-> proc[p].hash, location |-> Loc(p), deleted |-> FALSE]
TxPcs == {"s_tx", "l_tx", "u_tx"}
\* the step of a handleBlobDelete: it arrives, settles its Promise.all and answers
DeleteStep(p) == NoneDone /\ proc[p].pc = "idle" /\ proc'[p].op = "delete"
\* a small saveBlob arrives and looks its content up
SmallArrives(p) ==
  NoneDone /\ proc[p].pc = "idle" /\ proc'[p].op = "save" /\ Size(proc'[p].content) <= hashLimit

\* C1: the data table holds at most one row per (hash, location), and no step,
\* a createData for an existing key included, changes or removes a row; while
\* no I/O operation has failed, the transaction of a call that finds the key
\* taken ends without an error.
C1_DataKeyUnique ==
  /\ [](\A r1 \in data, r2 \in data : DataKey(r1) = DataKey(r2) => r1 = r2)
  /\ [][/\ data \subseteq data'
        /\ \A p \in Procs :
             (proc[p].pc \in TxPcs /\ RowsOf(p) # {} /\ Moved(p))
               => (data' = data /\ (~faulted' => proc'[p].status = "ok"))]_vars

\* a call whose createData met an existing row: its own object is in the bucket
C1_Witness ==
  \E p \in Procs :
    /\ DoneOk(p) /\ SmallSave(p) /\ InBucket(p)
    /\ \E r \in RowsOf(p) : r.filename # proc[p].filename

\* C2: when a successful saveBlob has ended there is exactly one Data row for
\* its (hash, location), and the object the call put is the one that row names
\* or is no longer (or never was) in the bucket.
C2_LoserObjectGone ==
  \A p \in Procs :
    (DoneOk(p) /\ proc[p].op = "save")
      => /\ Cardinality(RowsOf(p)) = 1
         /\ InBucket(p) => \A r \in RowsOf(p) : r.filename = proc[p].filename

\* the objects that saveBlob calls have put for content c
SavedObjects(b, c) == {o \in bucket[b] : o.content = c /\ o.key \notin OobKeys}
\* the blob rows of other names that point at the key of p's content
Siblings(p) ==
  {b \in blob : /\ b.workspace = proc[p].workspace /\ b.name # proc[p].name
                /\ b.hash = getSha256(proc[p].content) /\ b.location = Loc(p)}

\* C3: with requests served one after the other and no I/O failure, a saveBlob
\* that ends while another name of the tenant already points at the same
\* content leaves both Blob rows on the same (hash, location), one Data row for
\* that key and one object of that content put by saveBlob; on both paths.
C3_SequentialDedup ==
  \A p \in Procs :
    (DoneOk(p) /\ proc[p].op = "save" /\ ~faulted /\ Siblings(p) # {})
      => /\ Pointer(p) \in blob
         /\ proc[p].hash = getSha256(proc[p].content)
         /\ Cardinality(RowsOf(p)) = 1
         /\ Cardinality(SavedObjects(Bkt(p), proc[p].content)) = 1
         /\ \A r \in RowsOf(p) : BucketHead(bucket, Bkt(p), r.filename) # {}

\* the second upload of a large content under another name has ended
C3_Witness ==
  \E p \in Procs :
    DoneOk(p) /\ LargeSave(p) /\ ~faulted /\ Siblings(p) # {} /\ Pointer(p) \in blob

\* p reconciles a physical key that a Data row already names and that the Blob
\* row of p's name already points at: the call was made before, and succeeded
Repeated(p) ==
  /\ proc[p].op = "uploaded" /\ InFlight(p)
  /\ \E r \in data, b \in blob :
       /\ r.filename = proc[p].filename /\ r.location = Loc(p)
       /\ BlobKey(b) = <<proc[p].workspace, proc[p].name>>
       /\ b.hash = r.hash /\ b.location = r.location /\ ~b.deleted

\* C4: no step of a repeated handleBlobUploaded changes the Data rows, the Blob
\* rows or the bucket.
C4_RepeatChangesNothing ==
  [][\A p \in Procs :
       (Repeated(p) /\ Moved(p)) => (data' = data /\ blob' = blob /\ bucket' = bucket)]_vars

\* C5: with requests served one after the other and no I/O failure, a GET or
\* HEAD of a name whose Blob row is soft-deleted answers 404.
C5_ReadAfterDelete404 ==
  \A p \in Procs :
    (Done(p) /\ proc[p].op \in {"get", "head"} /\ ~faulted
      /\ \E b \in blob : BlobKey(b) = <<proc[p].workspace, proc[p].name>> /\ b.deleted)
      => proc[p].status = "404"

\* what GET answers for a name from the tables and the bucket (no cache hit)
Served(bl, dt, bk, workspace, name) ==
  {o.content : o \in UNION {BucketHead(bk, selectStorage(workspace).bucket, r.filename) :
                              r \in {x \in getBlob(bl, dt, workspace, name) : ~x.deleted}}}

\* C6: the step of handleBlobDelete changes no Data row and no object, and of
\* the Blob rows only the deleted flag of the row of its (tenant, name); what
\* GET serves for every other name is the same after the step.
C6_DeleteFrame ==
  [][\A p \in Procs :
       DeleteStep(p)
         => /\ data' = data
            /\ bucket' = bucket
            /\ \A r \in blob :
                 IF BlobKey(r) = <<proc'[p].workspace, proc'[p].name>>
                   THEN r \in blob' \/ [r EXCEPT !.deleted = TRUE] \in blob'
                   ELSE r \in blob'
            /\ Cardinality(blob') = Cardinality(blob)
            /\ \A w \in Workspaces, n \in Names :
                 <<w, n>> # <<proc'[p].workspace, proc'[p].name>>
                   => Served(blob', data', bucket', w, n) = Served(blob, data, bucket, w, n)]_vars

\* a delete has succeeded and another name still serves the same content
C6_Witness ==
  \E p \in Procs, b1 \in blob, b2 \in blob :
    /\ Done(p) /\ proc[p].op = "delete" /\ proc[p].status = "204"
    /\ BlobKey(b1) = <<proc[p].workspace, proc[p].name>> /\ b1.deleted
    /\ b2.name # b1.name /\ b2.hash = b1.hash /\ ~b2.deleted
    /\ Served(blob, data, bucket, b2.workspace, b2.name) # {}

\* the step in which request p performs its db.createBlob, and it succeeds
UpsertStep(p) ==
  /\ NoneDone
  /\ \/ proc[p].pc \in TxPcs \cup {"s_blob"} /\ proc'[p].pc = "done" /\ proc'[p].status = "ok"
     \/ "blob" \in proc'[p].won \ proc[p].won

\* C7: there is at most one Blob row per (tenant, name); the createBlob of a
\* saveBlob or handleBlobUploaded leaves the row of its name at the call's
\* (hash, location) with deleted = false; a Blob row changes only by such an
\* upsert or by the deleted flag set by a delete; no Data row is changed or removed.
C7_BlobUpsert ==
  /\ [](\A b1 \in blob, b2 \in blob : BlobKey(b1) = BlobKey(b2) => b1 = b2)
  /\ [][/\ data \subseteq data'
        /\ \A p \in Procs : UpsertStep(p) => Pointer(p) \in blob'
        /\ \A b \in blob' \ blob :
             \E p \in Procs :
               \/ UpsertStep(p) /\ b = Pointer(p)
               \/ /\ DeleteStep(p)
                  /\ BlobKey(b) = <<proc'[p].workspace, proc'[p].name>>
                  /\ b.deleted
                  /\ [b EXCEPT !.deleted = FALSE] \in blob]_vars

\* a name was repointed: two contents were stored, the only Blob row points at
\* the second, and the Data row of the first is still there
C7_Witness ==
  \E p \in Procs :
    /\ DoneOk(p) /\ Ingest(p) /\ ingests = 2
    /\ blob = {Pointer(p)}
    /\ \E r \in data : r.hash # proc[p].hash

\* C8: every Blob row references a (hash, location) that has a Data row, in
\* every state, the states between the steps of concurrent calls included.
C8_BlobHasData ==
  \A b \in blob : getData(data, b.hash, b.location) # {}

\* a Blob row exists while another call is between its put and its transaction
C8_Witness ==
  /\ blob # {}
  /\ \E p \in Procs : proc[p].pc \in TxPcs

\* C9: the transaction step of a call either ends "ok" with the Data row of the
\* key and the Blob row of the name both in place, or ends in error with both
\* tables unchanged; a Data row never appears without a Blob row pointing at it
\* appearing in the same step.
C9_TransactionAtomic ==
  [][/\ \A p \in Procs :
          (proc[p].pc \in TxPcs /\ Moved(p))
            => \/ /\ proc'[p].status = "ok"
                  /\ getData(data', proc[p].hash, Loc(p)) # {}
                  /\ Pointer(p) \in blob'
               \/ /\ proc'[p].status = "error"
                  /\ data' = data /\ blob' = blob
     /\ \A r \in data' \ data :
          \E b \in blob' \ blob : b.hash = r.hash /\ b.location = r.location]_vars

\* a small-path transaction has failed after its put: the object is in the
\* bucket and neither table has a row for it
C9_Witness ==
  \E p \in Procs :
    /\ Done(p) /\ proc[p].status = "error" /\ SmallSave(p) /\ InBucket(p)
    /\ RowsOf(p) = {}
    /\ \A b \in blob : BlobKey(b) # <<proc[p].workspace, proc[p].name>>

\* C10: on the small path nothing is written to the bucket before the lookup,
\* and a call that found the Data row writes no object and no Data row: its
\* only step upserts the Blob row of its name.
C10_SmallPathDedup ==
  /\ [](\A p \in Procs : proc[p].pc = "s_blob" => ~InBucket(p))
  /\ [][\A p \in Procs :
          /\ SmallArrives(p)
               => /\ bucket' = bucket
                  /\ proc'[p].hash = getSha256(proc'[p].content)
                  /\ (proc'[p].pc = "s_blob") = (getData(data, proc'[p].hash, selectStorage(proc'[p].workspace).location) # {})
          /\ (proc[p].pc = "s_blob" /\ Moved(p))
            => /\ bucket' = bucket
               /\ data' = data
               /\ proc'[p].pc = "done"
               /\ proc'[p].status = "ok" => blob' = createBlob(blob, proc[p].workspace,
                                               proc[p].name, getSha256(proc[p].content), Loc(p))]_vars

\* a small upload has found the Data row of its content
C10_Witness ==
  \E p \in Procs : proc[p].pc = "s_blob" /\ RowsOf(p) # {}


\* a large saveBlob arrives: uploadLargeFile runs
LargeArrives(p) ==
  NoneDone /\ proc[p].pc = "idle" /\ proc'[p].op = "save" /\ Size(proc'[p].content) > hashLimit

\* C11: with requests served one after the other, a large saveBlob first puts
\* its object under a key nothing else uses and only then looks the hash up; if
\* the Data row exists the call deletes its own object and upserts the Blob row
\* with the data table unchanged, else it inserts the Data row naming its key
\* together with the Blob upsert and the object stays.
C11_LargePath ==
  /\ [](\A p \in Procs : proc[p].pc \in {"l_get", "l_tx"} => InBucket(p))
  /\ [][\A p \in Procs :
          /\ LargeArrives(p)
               => /\ data' = data /\ blob' = blob
                  /\ BucketHead(bucket, selectStorage(proc'[p].workspace).bucket,
                                proc'[p].filename) = {}
                  /\ \A r \in data : r.filename # proc'[p].filename
                  /\ proc'[p].pc = "l_get" => proc'[p].hash = getSha256(proc'[p].content)
          /\ (proc[p].pc = "l_get" /\ Moved(p))
               => /\ data' = data /\ blob' = blob /\ bucket' = bucket
                  /\ (proc'[p].pc = "l_dedup") = (RowsOf(p) # {})
                  /\ (proc'[p].pc = "l_tx") = (RowsOf(p) = {})
          /\ (proc[p].pc = "l_dedup" /\ Moved(p))
               => /\ data' = data
                  /\ "delete" \in proc'[p].won \ proc[p].won
                       => bucket' = BucketDelete(bucket, Bkt(p), proc[p].filename) /\ blob' = blob
                  /\ "blob" \in proc'[p].won \ proc[p].won
                       => Pointer(p) \in blob' /\ bucket' = bucket
                  /\ proc'[p].status = "ok"
                       => /\ BucketHead(bucket', Bkt(p), proc[p].filename) = {}
                          /\ Pointer(p) \in blob'
          /\ (proc[p].pc = "l_tx" /\ Moved(p) /\ proc'[p].status = "ok")
               => /\ data' = data \cup {NewRow(p)}
                  /\ NewRow(p) \notin data
                  /\ Pointer(p) \in blob'
                  /\ bucket' = bucket]_vars

\* a large upload has found the Data row of its content, removed its own object
\* and pointed its name at the row
C11_Witness ==
  \E p \in Procs :
    /\ DoneOk(p) /\ LargeSave(p) /\ proc[p].won = {"delete", "blob"}
    /\ ~InBucket(p) /\ Pointer(p) \in blob
    /\ \E r \in RowsOf(p) : r.filename # proc[p].filename /\ BucketHead(bucket, Bkt(p), r.filename) # {}

\* C12: a saveBlob or handleBlobUploaded call that found the Data row and whose
\* bucket.delete of the redundant object failed while its createBlob succeeded
\* ends without an error, and the Blob row of its name is upserted.
C12_CleanupFailureTolerated ==
  \A p \in Procs :
    (Done(p) /\ Ingest(p) /\ proc[p].won = {"blob"})
      => proc[p].status = "ok"

SmallPcs == {"s_blob", "s_put", "s_tx"}
LargePcs == {"l_get", "l_dedup", "l_tx"}
\* the key both paths give content c: the SHA-256 digest of its bytes as a UUID
ContentKey(c) == digestToUUID(Digest("sha256", c))

\* C13: a saveBlob call is on the small path exactly when size <= hashLimit and
\* on the large path exactly when size > hashLimit; on either path its hash is
\* the SHA-256 key of its bytes, and with requests served one after the other a
\* successful call ends with one Data row for that key, the Blob row of its
\* name pointing at it, and GET of the name serving the uploaded bytes.
C13_PathsAgree ==
  /\ \A c \in Contents : getSha256(c) = ContentKey(c)
  /\ \A p \in Procs :
       (proc[p].op = "save" /\ InFlight(p))
         => /\ (proc[p].pc \in SmallPcs) = (Size(proc[p].content) <= hashLimit)
            /\ (proc[p].pc \in LargePcs) = (Size(proc[p].content) > hashLimit)
            /\ proc[p].hash = ContentKey(proc[p].content)
  /\ \A p \in Procs :
       (DoneOk(p) /\ proc[p].op = "save")
         => /\ proc[p].hash = ContentKey(proc[p].content)
            /\ Cardinality(RowsOf(p)) = 1
            /\ Pointer(p) \in blob
            /\ Served(blob, data, bucket, proc[p].workspace, proc[p].name) = {proc[p].content}

\* a file of exactly hashLimit bytes was stored by the small path after a file
\* of hashLimit + 1 bytes was stored by the large path, and both are served
C13_Witness ==
  \E p \in Procs, b \in blob :
    /\ DoneOk(p) /\ SmallSave(p) /\ InBucket(p)
    /\ Size(proc[p].content) = hashLimit
    /\ Served(blob, data, bucket, proc[p].workspace, proc[p].name) = {proc[p].content}
    /\ b.name # proc[p].name /\ b.hash = ContentKey(hashLimit + 1)
    /\ \E r \in getData(data, b.hash, b.location) : r.filename \notin OobKeys
    /\ Served(blob, data, bucket, b.workspace, b.name) = {hashLimit + 1}

\* the object handleBlobUploaded was called for, as bucket.head reported it
Reconciled(p) == BucketHead(bucket, Bkt(p), proc[p].filename)

\* C14: a handleBlobUploaded call for an object without a checksum does not go
\* on to the metadata store: it fails, and every Data row's hash is a digest of
\* content.
C14_NoChecksumFails ==
  /\ \A p \in Procs :
       (proc[p].op = "uploaded" /\ proc[p].pc # "idle"
          /\ \E o \in Reconciled(p) : ~o.md5)
         => /\ proc[p].pc = "done"
            /\ proc[p].status = "error"
  /\ \A r \in data : \E c \in Contents : r.hash \in {ContentKey(c), digestToUUID(Digest("md5", c))}

\* handleBlobUploaded arrives: bucket.head runs
UploadedArrives(p) == NoneDone /\ proc[p].pc = "idle" /\ proc'[p].op = "uploaded"

\* C15: with requests served one after the other, handleBlobUploaded reads the
\* object's head and looks its hash up without writing; if the Data row exists
\* it deletes the object at filename, adds no Data row and upserts the Blob row
\* to that key; otherwise it inserts the Data row (hash, location, filename,
\* and the type and size of the head) with the Blob upsert, and the object stays.
C15_Reconcile ==
  [][\A p \in Procs :
       /\ UploadedArrives(p)
            => /\ data' = data /\ blob' = blob /\ bucket' = bucket
               /\ (proc'[p].pc = "u_get") = (Reconciled(p)' # {})
               /\ proc'[p].pc # "u_get" => proc'[p].pc = "done" /\ proc'[p].status = "error"
               /\ \A o \in Reconciled(p)' :
                    proc'[p].content = o.content /\ proc'[p].type = o.type
       /\ (proc[p].pc = "u_get" /\ Moved(p))
            => /\ data' = data /\ blob' = blob /\ bucket' = bucket
               /\ (proc'[p].pc = "u_dedup") = (RowsOf(p) # {})
               /\ (proc'[p].pc = "u_tx") = (RowsOf(p) = {})
       /\ (proc[p].pc = "u_dedup" /\ Moved(p))
            => /\ data' = data
               /\ "delete" \in proc'[p].won \ proc[p].won
                    => bucket' = BucketDelete(bucket, Bkt(p), proc[p].filename) /\ blob' = blob
               /\ "blob" \in proc'[p].won \ proc[p].won
                    => Pointer(p) \in blob' /\ bucket' = bucket
               /\ proc'[p].status = "ok"
                    => /\ BucketHead(bucket', Bkt(p), proc[p].filename) = {}
                       /\ Pointer(p) \in blob'
       /\ (proc[p].pc = "u_tx" /\ Moved(p) /\ proc'[p].status = "ok")
            => /\ \E o \in Reconciled(p) :
                    data' = data \cup {[hash |-> proc[p].hash, location |-> Loc(p),
                                        filename |-> proc[p].filename, type |-> o.type,
                                        size |-> Size(o.content)]}
               /\ RowsOf(p) = {}
               /\ Pointer(p) \in blob'
               /\ bucket' = bucket]_vars

\* a reconciliation has found the Data row of its hash, deleted the object at
\* filename and pointed its name at the row
C15_Witness ==
  \E p \in Procs :
    /\ Done(p) /\ proc[p].op = "uploaded" /\ proc[p].status = "ok"
    /\ proc[p].won = {"delete", "blob"}
    /\ Reconciled(p) = {} /\ RowsOf(p) # {} /\ Pointer(p) \in blob

\* C16: with requests served one after the other, a successful handleBlobUploaded
\* for an object whose bytes saveBlob has already stored at the location ends
\* with its Blob row on the key saveBlob gave those bytes, and one Data row for them.
C16_CrossPathDedup ==
  \A p \in Procs :
    (Done(p) /\ proc[p].op = "uploaded" /\ proc[p].status = "ok"
       /\ getData(data, ContentKey(proc[p].content), Loc(p)) # {})
      => /\ proc[p].hash = ContentKey(proc[p].content)
         /\ Cardinality({r \in data : r.location = Loc(p)
                                       /\ r.size = Size(proc[p].content)}) = 1

Settled(p) == proc[p].pc = "settled"

\* C17: the result of a form file whose saveBlob succeeded carries the
\* metadata, a video whose copyVideo failed included.
C17_CopyFailureTolerated ==
  \A p \in Procs : (Settled(p) /\ proc[p].status = "ok") => proc[p].result = "metadata"

\* C18: every file of a form ends with one result, the metadata or an error:
\* an error when its saveBlob threw, the metadata when its saveBlob returned and
\* the file is no video; settling one file changes no other file's call, table
\* or bucket, and the response is sent only when every file has its result.
C18_PerPartOutcome ==
  /\ [](\A p \in Procs :
          Settled(p)
            => /\ proc[p].result \in {"metadata", "error"}
               /\ proc[p].status = "error" => proc[p].result = "error"
               /\ (proc[p].status = "ok" /\ proc[p].type \notin VideoTypes)
                    => proc[p].result = "metadata")
  /\ [][\A p \in Procs :
          /\ (Done(p) /\ Moved(p))
               => /\ Settled(p)'
                  /\ \A q \in Procs \ {p} : proc'[q] = proc[q]
                  /\ data' = data /\ blob' = blob /\ bucket' = bucket
          /\ (Settled(p) /\ ~Settled(p)')
               => \A q \in Procs : proc[q].pc \in {"idle", "settled"}]_vars

\* two files of one form have settled: the save of one failed, the other was
\* saved after that failure and carries its metadata
C18_Witness ==
  \E p \in Procs, q \in Procs :
    /\ Settled(p) /\ proc[p].result = "error" /\ proc[p].status = "error"
    /\ Settled(q) /\ proc[q].result = "metadata" /\ Pointer(q) \in blob
    /\ proc[q].filename = getUniqueFilename(2) /\ proc[p].filename = getUniqueFilename(1)

\* C19: the response of a GET has status 206 exactly when fewer bytes are served
\* than the object has, and 200 otherwise, whatever the form of the Range header.
C19_PartialStatus ==
  served.pc = "answered"
    => /\ served.status \in {"200", "206"}
       /\ (served.status = "206") = (served.bytes < served.size)

\* C20: the Content-Length of a GET response is the number of bytes served.
C20_ContentLengthOfRange ==
  served.pc = "answered" => served.contentLength = served.bytes

\* handleBlobGet arrives and cache.match answers
CacheHit(p) ==
  NoneDone /\ proc[p].pc = "idle" /\ proc'[p].op = "get" /\ proc'[p].pc = "done"

GetAnswer(workspace, name) ==
  IF CacheMatch(cache, workspace, name) # {}
    THEN (CHOOSE e \in CacheMatch(cache, workspace, name) : TRUE).status
    ELSE LET r == Resolved([Idle EXCEPT !.workspace = workspace, !.name = name], "g_object")
         IN IF r.pc = "done" THEN r.status
            ELSE IF BucketHead(bucket, selectStorage(workspace).bucket, r.filename) = {}
                   THEN "404" ELSE "200"

\* C22: with requests served one after the other, handleBlobHead answers 404
\* for (tenant, name) exactly when handleBlobGet without a Range header answers
\* 404 for it in the same state.
C22_HeadMirrorsGet ==
  \A p \in Procs :
    (Done(p) /\ proc[p].op = "head")
      => (proc[p].status = "404") = (GetAnswer(proc[p].workspace, proc[p].name) = "404")

\* C23: a handleBlobDelete that answers 500 has not marked the Blob row deleted
\* (and one whose soft delete succeeded answers 204).
C23_DeleteBestEffort ==
  [][\A p \in Procs :
       (DeleteStep(p) /\ proc'[p].status = "500") => blob' = blob]_vars

\* the bucket and the location selectStorage gives the tenant of request p
TenantBucket(p) == selectStorage(proc[p].workspace).bucket
TenantLocation(p) == selectStorage(proc[p].workspace).location

\* C24: every Blob row of a tenant carries the location selectStorage gives the
\* tenant; a step that inserts a Data row inserts it at that location with its
\* object in the tenant's bucket; and a GET or HEAD that finds the object reads
\* it from the tenant's bucket.
C24_TenantStorage ==
  /\ [](\A b \in blob : b.location = selectStorage(b.workspace).location)
  /\ [][/\ \A r \in data' \ data :
             \E p \in Procs :
               /\ Moved(p) /\ proc[p].pc \in TxPcs
               /\ r.location = TenantLocation(p)
               /\ BucketHead(bucket', TenantBucket(p), r.filename) # {}
        /\ \A p \in Procs :
             (proc[p].pc \in {"g_object", "h_head"} /\ Moved(p) /\ proc'[p].status # "404")
               => \E o \in BucketHead(bucket, TenantBucket(p), proc[p].filename) :
                    /\ proc'[p].type = o.type
                    /\ proc[p].op = "get" => proc'[p].body = o.content]_vars

C24_Witness ==
  /\ \E b1 \in blob, b2 \in blob :
       /\ b1.workspace = "w1" /\ b2.workspace = "w2"
       /\ b1.location # b2.location
       /\ \E r \in data : r.hash = b2.hash /\ r.location = b2.location
                          /\ BucketHead(bucket, selectStorage("w2").bucket, r.filename) # {}
  /\ \E p \in Procs : Done(p) /\ proc[p].op = "get" /\ proc[p].workspace = "w2"
                      /\ proc[p].status = "200"

\* the name of request p points at the data of the bytes p carries
Stored(p) ==
  \E b \in blob :
    /\ b.workspace = proc[p].workspace /\ b.name = proc[p].name /\ ~b.deleted
    /\ b.hash = getSha256(proc[p].content)
    /\ \E r \in data : /\ r.hash = b.hash /\ r.location = b.location
                       /\ r.size = Size(proc[p].content)

\* C25: a putBlob(workspace, name, data, type) leaves the metadata store as the
\* HTTP POST of one file part of that name does: when no I/O fails, the name
\* points at the data of the file's bytes.
C25_PutBlobAsPost ==
  \A p \in Procs :
    (Done(p) /\ proc[p].op \in {"save", "putBlob"} /\ proc[p].status # "error") => Stored(p)

Missing(param) == param = NoParam \/ param = ""

\* a request arrives and is answered 400 before any handler step
Answers400(p) ==
  NoneDone /\ proc[p].pc = "idle" /\ proc'[p].op = "fetch" /\ proc'[p].status = "400"

\* C26: a request to a blob route with a missing or empty workspace or name is
\* answered 400 and no handler runs with such a parameter; handleUploadFormData
\* answers 400 to a Content-Type that is not multipart and to a body that does
\* not parse; and a request answered 400 leaves the metadata store, the bucket
\* and the cache unchanged.
C26_BadRequest ==
  /\ [](\A p \in Procs :
          (Done(p) /\ proc[p].op = "fetch")
            => /\ ( /\ proc[p].path = "blob" /\ proc[p].method \in {"GET", "HEAD", "DELETE"}
                    /\ Missing(proc[p].workspace) \/ Missing(proc[p].name) )
                    => proc[p].status = "400"
               /\ ( /\ proc[p].path = "form-data" /\ proc[p].method = "POST"
                    /\ \/ Missing(proc[p].workspace)
                       \/ proc[p].type \in {"null", "application/json"}
                       \/ proc[p].form = "unparsable" )
                    => proc[p].status = "400")
  /\ [](\A p \in Procs :
          /\ proc[p].op \in {"get", "head", "delete", "save"} => ~Missing(proc[p].workspace)
          /\ proc[p].op \in {"get", "head", "delete"} => ~Missing(proc[p].name))
  /\ [][\A p \in Procs :
          Answers400(p) => UNCHANGED <<data, blob, bucket, cache>>]_vars

C26_Witness ==
  /\ blob # {} /\ cache # {}
  /\ \E p \in Procs :
       /\ Done(p) /\ proc[p].op = "fetch" /\ proc[p].status = "400"
       /\ proc[p].path = "form-data" /\ proc[p].form = "unparsable"
       /\ ~Missing(proc[p].workspace)

\* the keys a caller of handleBlobUploaded can name: the keys reserved for writes
\* that bypass saveBlob. saveBlob draws its filename itself and neither returns
\* it ({ type, size, lastModified, name }) nor puts it in the error it throws.
ReconcilableKeys == OobKeys

\* the objects of bucket l that no Data row names and no request is working on
Orphans(l) ==
  {o \in bucket[l] :
     /\ \A r \in data : ~(r.location = l /\ r.filename = o.key)
     /\ \A p \in Procs : ~(proc[p].pc # "idle" /\ Bkt(p) = l /\ proc[p].filename = o.key)}

\* C27: an object that a failed ingestion left in the bucket without a Data row
\* can be reconciled later: its physical key is one that a caller of
\* handleBlobUploaded can name.
C27_OrphansReconcilable ==
  \A l \in Locations : \A o \in Orphans(l) : o.key \in ReconcilableKeys

\* the bucket of a location
BucketOf(l) == selectStorage(CHOOSE w \in Tenants : selectStorage(w).location = l).bucket

\* C28: the object each Data row names exists in the bucket of the row's
\* location, whatever saveBlob, handleBlobUploaded and handleBlobDelete calls
\* have interleaved.
C28_ReferencedObjectExists ==
  \A r \in data : BucketHead(bucket, BucketOf(r.location), r.filename) # {}

\* the Data rows that name the object o of the bucket of location l
RowsNaming(l, o) == {r \in data : r.location = l /\ r.filename = o.key}

\* C29: when saveBlob and handleBlobUploaded calls have run one after the other
\* without an I/O failure and none is in flight, every object that saveBlob put
\* is the physical key of exactly one Data row, and every object written out of
\* band is the physical key of one Data row once it is reconciled (of none
\* before).
C29_OneRowPerObject ==
  (Quiet /\ ~faulted)
    => \A l \in Locations : \A o \in bucket[l] :
         /\ o.key \notin OobKeys => Cardinality(RowsNaming(l, o)) = 1
         /\ o.key \in OobKeys => Cardinality(RowsNaming(l, o)) <= 1

\* the objects the live Blob row of (workspace, name) resolves to
Latest(workspace, name) ==
  UNION {BucketHead(bucket, selectStorage(workspace).bucket, r.filename) :
           r \in {x \in getBlob(blob, data, workspace, name) : ~x.deleted}}

\* C30: with requests served one after the other and no I/O failure, a GET that
\* answers 200 for a name whose Blob row is live returns the bytes and the
\* content type of the object the row resolves to, the latest upload of the name.
C30_ReadsLatestUpload ==
  \A p \in Procs :
    (Done(p) /\ proc[p].op = "get" /\ proc[p].status = "200" /\ ~faulted
       /\ Latest(proc[p].workspace, proc[p].name) # {})
      => \E o \in Latest(proc[p].workspace, proc[p].name) :
           proc[p].body = o.content /\ proc[p].type = o.type

\* a step of a saveBlob, handleBlobUploaded or handleBlobDelete call
WriterStep(p) == Moved(p) /\ proc'[p].op \in {"save", "uploaded", "delete"}

\* C31: a step of saveBlob, handleBlobUploaded or handleBlobDelete for (tenant,
\* name) leaves every Blob row of another (tenant, name) as it is and adds none,
\* changes and removes no Data row, and removes no object but the one under the
\* call's own filename in the tenant's bucket.
C31_WriterFrame ==
  [][\A p \in Procs :
       WriterStep(p)
         => /\ \A b \in blob \cup blob' :
                 BlobKey(b) # <<proc'[p].workspace, proc'[p].name>>
                   => (b \in blob /\ b \in blob')
            /\ data \subseteq data'
            /\ \A l \in Locations : \A o \in bucket[l] \ bucket'[l] :
                 /\ l = selectStorage(proc'[p].workspace).bucket
                 /\ o.key = proc'[p].filename
                 /\ proc'[p].op # "delete"]_vars

\* a call has deleted its own redundant object while the row of another name and
\* the object that row resolves to are in place
C31_Witness ==
  \E p \in Procs, b \in blob :
    /\ Done(p) /\ Ingest(p) /\ "delete" \in proc[p].won /\ ~InBucket(p)
    /\ b.name # proc[p].name /\ ~b.deleted
    /\ \E r \in data : /\ r.hash = b.hash /\ r.location = b.location
                       /\ BucketHead(bucket, BucketOf(r.location), r.filename) # {}

\* object.range names bytes of the object: it does not reach past its end
WithinObject(range, size) ==
  /\ range # NoRange
  /\ range.suffix # Absent => range.suffix \in 1..size
  /\ range.offset # Absent => range.offset \in 0..(size - 1)
  /\ range.length # Absent => (range.length >= 1 /\ range.offset + range.length <= size)

\* C32: for a range served from an object of size n the Content-Range is
\* bytes s-e/n with 0 <= s <= e <= n-1 and e-s+1 the number of bytes served;
\* offset and length give s = offset and e = offset+length-1, an offset alone
\* gives e = n-1, a suffix k gives s = n-k and e = n-1.
C32_ContentRange ==
  (served.pc = "answered" /\ served.req.kind # "none" /\ WithinObject(served.range, served.size))
    => LET s == served.contentRange[1]
           e == served.contentRange[2]
           n == served.size
           r == served.range
       IN /\ served.contentRange[3] = n
          /\ 0 <= s /\ s <= e /\ e <= n - 1
          /\ e - s + 1 = served.bytes
          /\ (r.offset # Absent /\ r.length # Absent) => (s = r.offset /\ e = r.offset + r.length - 1)
          /\ (r.offset # Absent /\ r.length = Absent) => (s = r.offset /\ e = n - 1)
          /\ r.suffix # Absent => (s = n - r.suffix /\ e = n - 1)

\* a suffix range of two bytes of a larger object has been answered
C32_Witness ==
  /\ served.pc = "answered" /\ served.range.suffix = 2 /\ served.size > 2
  /\ served.contentRange = <<served.size - 2, served.size - 1, served.size>>

\* C33: a handleBlobUploaded whose bucket.head finds no object under the key, or
\* an object without httpMetadata, throws 'blob not found' at once: it never
\* reaches its db.getData, and the Data rows, the Blob rows and the bucket are
\* as they were; with a head that has httpMetadata it goes on to db.getData.
C33_BlobNotFound ==
  [][\A p \in Procs :
       UploadedArrives(p)
         => LET found == BucketHead(bucket, selectStorage(proc'[p].workspace).bucket,
                                    proc'[p].filename)
            IN /\ (found = {} \/ \A o \in found : o.type = NoMetadata)
                    => /\ proc'[p].pc = "done" /\ proc'[p].status = "error"
                       /\ data' = data /\ blob' = blob /\ bucket' = bucket
               /\ (\E o \in found : o.type # NoMetadata)
                    => proc'[p].pc = "u_get" /\ data' = data /\ blob' = blob /\ bucket' = bucket]_vars

\* the call for an object without httpMetadata has thrown, the object is in the
\* bucket and rows of other uploads are in the tables
C33_Witness ==
  \E p \in Procs :
    /\ Done(p) /\ proc[p].op = "uploaded" /\ proc[p].status = "error"
    /\ \E o \in BucketHead(bucket, Bkt(p), proc[p].filename) : o.type = NoMetadata
    /\ data # {} /\ blob # {}

\* C34: withRetry(ctx, retries, op) invokes op at most retries times and never
\* again after an invocation succeeded; it returns the value of that invocation;
\* it has waited the delay once after every failed invocation but the last of
\* the retries; when all have failed it throws the error of the last one; and
\* it ends.
C34_WithRetry ==
  /\ [](LET r == collab.r
            n == Len(collab.r.log)
        IN /\ n <= collab.given
           /\ \A i \in 1..(n - 1) : r.log[i] \in Errors
           /\ r.pc = "returned" => (r.log[n] \in Values /\ r.result = r.log[n] /\ r.waits = n - 1)
           /\ r.pc = "wait" => (r.log[n] \in Errors /\ n < collab.given /\ r.waits = n - 1)
           /\ r.pc = "loop" => \/ n < collab.given /\ r.waits = n
                               \/ n = collab.given /\ n = 0 /\ r.waits = 0
                               \/ n = collab.given /\ n >= 1 /\ r.waits = n - 1
                                    /\ r.log[n] \in Errors
           /\ r.pc = "thrown" => /\ n = collab.given
                                 /\ \A i \in 1..n : r.log[i] \in Errors
                                 /\ n >= 1 => (r.error = r.log[n] /\ r.waits = n - 1))
  /\ <>(collab.r.pc \in {"returned", "thrown"})

\* five attempts have failed, four delays were awaited, the last error is thrown
C34_Witness ==
  /\ collab.given = 5 /\ collab.r.pc = "thrown"
  /\ Len(collab.r.log) = 5 /\ collab.r.waits = 4
  /\ collab.r.log[4] # collab.r.log[5] /\ collab.r.error = collab.r.log[5]

(* ----------------- properties of PlatformStorageAdapter ---------------- *)

\* the positions of an effect in the trace of the call at work
Positions(effect) == {i \in 1..Len(collab.trace) : collab.trace[i] = effect}

PlatformWrites == {"saveCollabJson", "diffUpdate", "DocUpdateMessage"}

\* the positions where the call at work wrote to the platform
Written == {i \in 1..Len(collab.trace) : collab.trace[i] \in PlatformWrites}

\* a step that changes what the platform holds
PlatformChanges ==
  \/ collab'.attr # collab.attr
  \/ collab'.msgs # collab.msgs
  \/ collab'.json # collab.json

\* the ydoc save of the saveDocument at work failed on every attempt
YdocSaveFailed ==
  /\ collab.op = "save"
  /\ Positions("saveYdoc") = {}
  /\ Cardinality(Positions("saveYdoc failed")) = SaveRetries

\* C35: saveDocument writes to the platform only after its saveCollabYdoc has
\* succeeded; when the ydoc save fails on all 5 attempts the call throws and
\* neither the platform update nor the activity message is written; and a
\* client obtained from clientFactory is closed exactly once on every path,
\* as the last thing the call does
C35_SaveDocument ==
  /\ [](\A i \in Written :
          /\ collab.op # "load"
          /\ \E j \in Positions("saveYdoc") : j < i)
  /\ [][PlatformChanges => collab.op = "save" /\ Positions("saveYdoc") # {}]_vars
  /\ [](collab.op = "save" /\ collab.pc \in {"s_close", "done"} /\ collab.client # "none"
          /\ Positions("saveYdoc") = {}
          => /\ YdocSaveFailed
             /\ collab.result = "thrown"
             /\ Written = {}
             /\ collab.ydoc = collab.had)
  /\ [][YdocSaveFailed => ~PlatformChanges]_vars
  /\ [](Cardinality(Positions("close")) <= 1)
  /\ [](\A i \in Positions("close") : i = Len(collab.trace) /\ collab.client = "closed")
  /\ [](collab.op = "save" /\ collab.pc = "done"
          => IF collab.client = "none" THEN Positions("close") = {} /\ collab.result = "thrown"
             ELSE Cardinality(Positions("close")) = 1)

\* a saveDocument whose ydoc save failed five times has thrown, the client closed
C35_Witness ==
  /\ collab.pc = "done"
  /\ YdocSaveFailed
  /\ collab.result = "thrown"
  /\ Positions("close") # {}

\* C37: saveDocumentToPlatform writes in the order saveCollabJson, diffUpdate
\* of the attribute to the new blob id, DocUpdateMessage; when the attribute is
\* unknown, the object is not found or the attribute is not a collaborative
\* doc it performs none of the three writes
C37_SaveDocumentToPlatform ==
  /\ [](\A i \in Positions("diffUpdate") :
          /\ collab.attr = JsonBlob
          /\ \E j \in Positions("saveCollabJson") : j < i)
  /\ [](\A i \in Positions("DocUpdateMessage") : \E j \in Positions("diffUpdate") : j < i)
  /\ [](\A w \in PlatformWrites : Cardinality(Positions(w)) <= 1)
  /\ [][/\ collab'.json # collab.json => collab.pc = "p_json"
        /\ collab'.attr # collab.attr =>
             collab.pc = "p_update" /\ collab'.attr = JsonBlob /\ Positions("saveCollabJson") # {}
        /\ collab'.msgs # collab.msgs =>
             collab.pc = "p_activity" /\ collab'.msgs = collab.msgs + 1
               /\ Positions("diffUpdate") # {}]_vars
  /\ [](collab.op = "save"
          /\ (collab.attribute # "collaborative" \/ collab.current = "undefined")
          => Written = {} /\ Positions("saveCollabJson failed") = {})
  /\ [][collab.op = "save"
          /\ (collab.attribute # "collaborative" \/ collab.current = "undefined")
          => ~PlatformChanges]_vars

\* a saveDocument has made all three writes
C37_Witness ==
  /\ collab.pc = "done"
  /\ Cardinality(Written) = 3
  /\ collab.result = "ok"

\* C36: loadDocument returns the stored ydoc when there is one, without
\* reading the initial content; otherwise, with initial content that loads, it
\* saves the derived ydoc before returning it, so that the next loadDocument
\* returns it from the ydoc storage; it returns undefined only when neither
\* source yields a document; a load that failed on every attempt is rethrown
C36_LoadDocument ==
  /\ [](collab.op = "load" /\ collab.had # "none"
          => /\ Positions("loadJson") = {} /\ Positions("loadJson failed") = {}
             /\ Positions("saveYdoc") = {}
             /\ collab.ydoc = collab.had
             /\ collab.pc = "done" => collab.result \in {collab.had, "thrown"})
  /\ [](collab.op = "load" /\ collab.pc = "done" /\ collab.had = "none"
          /\ collab.result \notin {"undefined", "thrown"}
          => /\ collab.content # "none"
             /\ collab.result = Derived
             /\ collab.ydoc = collab.result
             /\ \E i \in Positions("loadJson"), j \in Positions("saveYdoc") : i < j)
  /\ [](collab.op = "load" /\ collab.pc = "done" /\ collab.result = "undefined"
          => /\ collab.ydoc = "none"
             /\ collab.trace[Len(collab.trace)] \in {"loadYdoc", "loadJson"}
             /\ collab.content = "none" <=> Positions("loadJson") = {})
  /\ [](collab.op = "load" /\ collab.pc = "done"
          /\ collab.trace[Len(collab.trace)] \in {"loadYdoc failed", "loadJson failed", "saveYdoc failed"}
          => collab.result = "thrown")
  /\ [](collab.op = "load" /\ collab.pc = "done" /\ collab.result = "thrown"
          => \/ Cardinality(Positions("loadYdoc failed")) = LoadRetries
             \/ Cardinality(Positions("loadJson failed")) = LoadRetries
             \/ Positions("saveYdoc failed") # {})

\* a second loadDocument returned the ydoc the first derived from the content
C36_Witness ==
  /\ collab.op = "load" /\ collab.pc = "done"
  /\ collab.had = Derived
  /\ collab.result = Derived
  /\ collab.calls = 2

(* --------------------- properties of the ClickUp importer -------------- *)

RECURSIVE Below(_, _)
\* the tasks found from the tasks of front through subdocs, seen included
Below(front, seen) ==
  IF front \subseteq seen THEN seen
  ELSE Below(UNION {Range(imp.subdocs[n]) : n \in front \ seen}, seen \cup front)

\* the tasks in the tree of an import project
InProject(s) == Below(Range(imp.docs[s]), {})

\* how often a task is held in a docs or subdocs list
Held(n) ==
  Cardinality({<<s, k>> \in SpaceNames \X (1..Len(imp.rows)) :
                 k <= Len(imp.docs[s]) /\ imp.docs[s][k] = n})
  + Cardinality({<<m, k>> \in (1..Len(imp.rows)) \X (1..Len(imp.rows)) :
                 k <= Len(imp.subdocs[m]) /\ imp.subdocs[m][k] = n})

PhaseRank(phase) == CASE phase = "persons" -> 1 [] phase = "projectTypes" -> 2 [] phase = "spaces" -> 3

\* the created issues that were made from an issue of the import data
CreatedFrom(n) == {k \in 1..Len(imp.issues) : imp.issues[k].of = n}

\* the ids of the ancestors of a created issue, from its parent up to the root
RECURSIVE AncestorIds(_)
AncestorIds(k) ==
  IF imp.issues[k].attachedTo = NoParent THEN <<>>
  ELSE <<imp.issues[k].attachedTo>> \o AncestorIds(imp.issues[k].attachedTo)

\* C39: performImport runs persons, then project types, then spaces; in a
\* project every issue is created exactly once and before all of its
\* sub-issues, a sub-issue is attached to the id of its parent, and its
\* parents list is the chain of its ancestors from the nearest to the root
C39_ImportOrder ==
  /\ \A i, j \in 1..Len(imp.log) : i < j => PhaseRank(imp.log[i]) <= PhaseRank(imp.log[j])
  /\ Cardinality({i \in 1..Len(imp.log) : imp.log[i] \in {"persons", "projectTypes"}}) <= 2
  /\ imp.projects # <<>> => Len(imp.log) >= 3 /\ imp.log[1] = "persons" /\ imp.log[2] = "projectTypes"
  /\ \A n \in DOMAIN imp.workspaceData.parent :
       /\ Cardinality(CreatedFrom(n)) <= 1
       /\ imp.pc = "done" => Cardinality(CreatedFrom(n)) = 1
  /\ \A k \in 1..Len(imp.issues) :
       LET issue == imp.issues[k]
           above == imp.workspaceData.parent[issue.of]
       IN /\ issue.space = imp.workspaceData.home[issue.of]
          /\ issue.attachedTo < k
          /\ IF above = 0 THEN issue.attachedTo = NoParent
             ELSE /\ issue.attachedTo # NoParent
                  /\ imp.issues[issue.attachedTo].of = above
          /\ Len(issue.parents) = Len(AncestorIds(k))
          /\ \A i \in 1..Len(issue.parents) :
               /\ issue.parents[i].parentId = AncestorIds(k)[i]
               /\ issue.parents[i].identifier = imp.issues[AncestorIds(k)[i]].identifier

\* an import has created an issue below a sub-issue
C39_Witness ==
  /\ imp.pc = "done"
  /\ \E k \in 1..Len(imp.issues) : Len(imp.issues[k].parents) = 2

\* the identifiers of the workspace's projects when the project at place s was created
IdentifiersBefore(s) == imp.existing \cup {imp.projects[t].identifier : t \in 1..(s - 1)}

\* C40: a project gets its base identifier if no project has it, else the base
\* followed by the smallest i >= 1 that gives an unused identifier, so the
\* identifiers of the projects are pairwise distinct; the issues created in a
\* project get distinct, strictly increasing numbers and the identifier
\* '<project identifier>-<number>'
C40_UniqueIdentifiers ==
  /\ \A s \in 1..Len(imp.projects) :
       LET base == imp.workspaceData.bases[s]
           identifier == imp.projects[s].identifier
       IN /\ identifier \notin IdentifiersBefore(s)
          /\ IF base \notin IdentifiersBefore(s) THEN identifier = base
             ELSE \E i \in 1..(Cardinality(IdentifiersBefore(s)) + 1) :
                    /\ identifier = base \o Decimal(i)
                    /\ \A j \in 1..(i - 1) : base \o Decimal(j) \in IdentifiersBefore(s)
  /\ \A s, t \in 1..Len(imp.projects) :
       imp.projects[s].identifier = imp.projects[t].identifier => s = t
  /\ \A k, l \in 1..Len(imp.issues) :
       k < l /\ imp.issues[k].space = imp.issues[l].space
         => imp.issues[k].number < imp.issues[l].number
  /\ \A k \in 1..Len(imp.issues) :
       /\ imp.issues[k].number >= 1
       /\ imp.issues[k].identifier
            = imp.projects[imp.issues[k].space].identifier \o <<"-">> \o Decimal(imp.issues[k].number)

\* two projects of the same base identifier, already taken in the workspace,
\* were imported and one of them has two issues
C40_Witness ==
  /\ imp.pc = "done"
  /\ imp.workspaceData.bases[1] = imp.workspaceData.bases[2]
  /\ imp.workspaceData.bases[1] \in imp.existing
  /\ \E k, l \in 1..Len(imp.issues) : k # l /\ imp.issues[k].space = imp.issues[l].space
====
